---- MODULE Spec2Model ----
(***************************************************************************)
(* Model of the Text Summarizer component (TextSummarizer in               *)
(* src/src/pages/tools/Reminders.tsx, lines 509-607): its React state, the  *)
(* summarizeText handler with its deferred callback, and the extractive     *)
(* summarization algorithm computed character by character.                 *)
(*                                                                          *)
(* A string is a sequence of one-character strings.                         *)
(*                                                                          *)
(* The other tools of the application follow, each with its own state       *)
(* and handlers and a specification of its own: Notes, the QR Code          *)
(* Generator, the Image Compressor, the Pomodoro Timer, Reminders, the      *)
(* Stopwatch, the Calendar, and the lists of the two PDF tools.             *)
(***************************************************************************)
EXTENDS Integers, Sequences, FiniteSets, TLC

VARIABLES inputText, summary, summaryLength, isProcessing, toast, pending, log

vars == <<inputText, summary, summaryLength, isProcessing, toast, pending, log>>

\* Notes (Notes.tsx): the notes, the note shown, the editor and its draft;
\* nextNoteId stands for crypto.randomUUID and draftOf records the note the
\* draft was loaded from
VARIABLES notes, selectedNote, isEditing, newTitle, newContent, newTags,
          nextNoteId, draftOf

notesVars == <<notes, selectedNote, isEditing, newTitle, newContent, newTags,
               nextNoteId, draftOf>>

\* QR Code Generator (QRCodeTool): the state of lines 18-31; qrTasks holds
\* the work the browser has still to settle (the script of the QR library,
\* the calls of QRCode.toCanvas) and qrRequested records that generation was
\* requested for a text that is not blank with the library loaded
VARIABLES qrText, qrDataURL, activeTab, isLoading, qrLoaded, urlData,
          phoneData, qrTasks, qrRequested

qrVars == <<qrText, qrDataURL, activeTab, isLoading, qrLoaded, urlData,
            phoneData, qrTasks, qrRequested>>

\* Image Compressor (ImageCompressor in Reminders.tsx): images, quality and
\* isProcessing of lines 220-222, the last named imagesProcessing here beside
\* the summarizer's; imageQueue, newImages and capturedQuality are the
\* locals of the running handleFileSelect, imageLoad the state of the promise
\* of compressImage it awaits, nextImageId stands for crypto.randomUUID
VARIABLES images, quality, imagesProcessing, imageQueue, newImages,
          capturedQuality, imageLoad, imageToast, nextImageId

compressorVars == <<images, quality, imagesProcessing, imageQueue, newImages,
                    capturedQuality, imageLoad, imageToast, nextImageId>>

\* Pomodoro Timer (PomodoroTimer): the state of lines 199-205, isRunning
\* named pomodoroRunning here beside the stopwatch's; timerClosure is what
\* the callback of the interval, created by the render that started the
\* timer, sees of currentMode and sessionsCompleted; timerCompleted records
\* that the last step was the timer reaching zero
VARIABLES workDuration, shortBreakDuration, longBreakDuration, currentMode,
          timeLeft, pomodoroRunning, sessionsCompleted, timerClosure,
          timerCompleted

pomodoroVars == <<workDuration, shortBreakDuration, longBreakDuration,
                  currentMode, timeLeft, pomodoroRunning, sessionsCompleted,
                  timerClosure, timerCompleted>>

\* Reminders (Reminders in Reminders.tsx): reminders, newTitle and
\* newDatetime of lines 17-19, the two fields named reminderTitle and
\* reminderDatetime here beside the draft of Notes; clock is the time since
\* the page was opened and sinceCheck the time since the interval of the
\* periodic check was created or fired, both in milliseconds
VARIABLES reminders, reminderTitle, reminderDatetime, clock, sinceCheck,
          nextReminderId

remindersVars == <<reminders, reminderTitle, reminderDatetime, clock,
                   sinceCheck, nextReminderId>>

\* Stopwatch (Stopwatch.tsx): the state of lines 9-14, isRunning named
\* stopwatchRunning and mode named stopwatchMode here; tickedFrom is the
\* countdownTime before the last step where that step was a run of the
\* callback of the interval, and NotTicked after any other step
VARIABLES time, stopwatchRunning, laps, countdownTime, countdownInput,
          stopwatchMode, tickedFrom

stopwatchVars == <<time, stopwatchRunning, laps, countdownTime,
                   countdownInput, stopwatchMode, tickedFrom>>

\* Calendar (Calendar.tsx): the state of lines 18-26; nextEventId stands for
\* crypto.randomUUID. The fields of newEvent are empty whenever the form
\* opens after an event was added, and are inputs of addEvent here: what the
\* user has typed into the form when pressing Add
VARIABLES events, currentDate, selectedDate, showAddEvent, nextEventId

calendarVars == <<events, currentDate, selectedDate, showAddEvent,
                  nextEventId>>

\* PDF Merger (FileMerger) and Image to PDF (ImageToPdf): the list of each,
\* files and images, the latter named pdfImages here beside the
\* compressor's; nextItemId stands for crypto.randomUUID; lastMove records
\* the last step where it was a move: the list, the arguments and the list
\* before it
VARIABLES files, pdfImages, nextItemId, lastMove

listsVars == <<files, pdfImages, nextItemId, lastMove>>

\* the state of the tools other than the text summarizer
toolsVars == <<notesVars, qrVars, compressorVars, pomodoroVars,
               remindersVars, stopwatchVars, calendarVars, listsVars>>

\* every variable
allVars == <<vars, toolsVars>>

\* for each tool, the variables of the others
exceptNotes == <<vars, qrVars, compressorVars, pomodoroVars, remindersVars,
                 stopwatchVars, calendarVars, listsVars>>

exceptQR == <<vars, notesVars, compressorVars, pomodoroVars, remindersVars,
              stopwatchVars, calendarVars, listsVars>>

exceptCompressor == <<vars, notesVars, qrVars, pomodoroVars, remindersVars,
                      stopwatchVars, calendarVars, listsVars>>

exceptPomodoro == <<vars, notesVars, qrVars, compressorVars, remindersVars,
                    stopwatchVars, calendarVars, listsVars>>

exceptReminders == <<vars, notesVars, qrVars, compressorVars, pomodoroVars,
                     stopwatchVars, calendarVars, listsVars>>

exceptStopwatch == <<vars, notesVars, qrVars, compressorVars, pomodoroVars,
                     remindersVars, calendarVars, listsVars>>

exceptCalendar == <<vars, notesVars, qrVars, compressorVars, pomodoroVars,
                    remindersVars, stopwatchVars, listsVars>>

exceptLists == <<vars, notesVars, qrVars, compressorVars, pomodoroVars,
                 remindersVars, stopwatchVars, calendarVars>>

----------------------------------------------------------------------------
(* Character classes of the regular expressions and of String.trim *)

\* /[.!?]+/ : the sentence terminators
Delims == {".", "!", "?"}

\* \s : white space
Whitespace == {" ", "\n", "\t"}

UpperCase == <<"A","B","C","D","E","F","G","H","I","J","K","L","M",
               "N","O","P","Q","R","S","T","U","V","W","X","Y","Z">>

LowerCase == <<"a","b","c","d","e","f","g","h","i","j","k","l","m",
               "n","o","p","q","r","s","t","u","v","w","x","y","z">>

Digits == {"0","1","2","3","4","5","6","7","8","9"}

\* \w : letters, digits and the underscore
WordChars == {UpperCase[i] : i \in DOMAIN UpperCase}
                \cup {LowerCase[i] : i \in DOMAIN LowerCase}
                \cup Digits \cup {"_"}

\* [\w\s] : what replace(/[^\w\s]/g, ' ') keeps
KeptChars == WordChars \cup Whitespace

UpperChars == {UpperCase[i] : i \in DOMAIN UpperCase}

LowerOf == [c \in UpperChars |->
               LowerCase[CHOOSE i \in DOMAIN UpperCase : UpperCase[i] = c]]

\* String.toLowerCase, one character
toLowerCase(c) == IF c \in UpperChars THEN LowerOf[c] ELSE c

----------------------------------------------------------------------------
(* String and array primitives of the JavaScript run time *)

Min(a, b) == IF a <= b THEN a ELSE b

Max(a, b) == IF a >= b THEN a ELSE b

\* String.split(/[sep]+/): the pieces between maximal runs of separators;
\* a leading or trailing run yields an empty first or last piece, and the
\* empty string yields one empty piece.
RECURSIVE SplitFrom(_, _, _)
SplitFrom(s, i, Sep) ==
    LET stops == {j \in i .. Len(s) : s[j] \in Sep}
        stop  == IF stops = {} THEN Len(s) + 1
                 ELSE CHOOSE j \in stops : \A k \in stops : j <= k
        nexts == {j \in stop .. Len(s) : s[j] \notin Sep}
        next  == IF nexts = {} THEN Len(s) + 1
                 ELSE CHOOSE j \in nexts : \A k \in nexts : j <= k
    IN  IF stop > Len(s) THEN <<SubSeq(s, i, Len(s))>>
        ELSE <<SubSeq(s, i, stop - 1)>> \o SplitFrom(s, next, Sep)

split(s, Sep) == SplitFrom(s, 1, Sep)

\* String.trim
trim(s) ==
    LET keep == {i \in DOMAIN s : s[i] \notin Whitespace}
    IN  IF keep = {} THEN <<>>
        ELSE SubSeq(s, CHOOSE i \in keep : \A j \in keep : i <= j,
                       CHOOSE i \in keep : \A j \in keep : i >= j)

\* slice with the end taken one too small
sliceExclusive(seq, end) ==
    LET e == IF end < 0 THEN Max(Len(seq) + end, 0) ELSE Min(end, Len(seq))
    IN  SubSeq(seq, 1, e - 1)

\* slice that ignores its end
sliceWhole(seq, end) == seq

\* Array.slice(0, end): a negative end counts from the end of the array
slice(seq, end) ==
    LET e == IF end < 0 THEN Max(Len(seq) + end, 0) ELSE Min(end, Len(seq))
    IN  SubSeq(seq, 1, e)

\* join with two spaces between the strings
RECURSIVE joinTwoSpaces(_)
joinTwoSpaces(strs) ==
    IF strs = <<>> THEN <<>>
    ELSE IF Len(strs) = 1 THEN strs[1]
         ELSE strs[1] \o <<" ", " ">> \o joinTwoSpaces(Tail(strs))

\* Array.join(' ')
RECURSIVE join(_)
join(strs) ==
    IF strs = <<>> THEN <<>>
    ELSE IF Len(strs) = 1 THEN strs[1]
         ELSE strs[1] \o <<" ">> \o join(Tail(strs))

----------------------------------------------------------------------------
(* The summarization algorithm, the body of the deferred callback *)

\* a fragment is a sentence when its trimmed length exceeds this
MinSentenceLength == 10

\* a word counts when its length exceeds this
MinWordLength == 3

\* the filter with >= in place of >
sentencesAtLeast(text) ==
    LET parts == split(text, Delims)
    IN  SelectSeq([i \in DOMAIN parts |-> trim(parts[i])],
                  LAMBDA s : Len(s) >= MinSentenceLength)

\* inputText.split(/[.!?]+/).map(s => s.trim()).filter(s => s.length > 10)
sentences(text) ==
    LET parts == split(text, Delims)
    IN  SelectSeq([i \in DOMAIN parts |-> trim(parts[i])],
                  LAMBDA s : Len(s) > MinSentenceLength)

\* the word filter with >= in place of >
wordsAtLeast(text) ==
    LET cleaned == SubSeq([i \in DOMAIN text |->
                              LET c == toLowerCase(text[i])
                              IN  IF c \in KeptChars THEN c ELSE " "],
                          1, Len(text))
    IN  SelectSeq(split(cleaned, Whitespace),
                  LAMBDA word : Len(word) >= MinWordLength)

\* .toLowerCase().replace(/[^\w\s]/g, ' ').split(/\s+/).filter(word => word.length > 3)
words(text) ==
    LET cleaned == SubSeq([i \in DOMAIN text |->
                              LET c == toLowerCase(text[i])
                              IN  IF c \in KeptChars THEN c ELSE " "],
                          1, Len(text))
    IN  SelectSeq(split(cleaned, Whitespace),
                  LAMBDA word : Len(word) > MinWordLength)

\* a table that records the presence of a word, not its count
wordFreqPresence(allWords, word) ==
    IF \E i \in DOMAIN allWords : allWords[i] = word THEN 1 ELSE 0

\* wordFreq.get(word) once forEach has counted every word of the text
wordFreq(allWords, word) ==
    Cardinality({i \in DOMAIN allWords : allWords[i] = word})

RECURSIVE SumFreq(_, _)
SumFreq(allWords, sentenceWords) ==
    IF sentenceWords = <<>> THEN 0
    ELSE wordFreq(allWords, Head(sentenceWords))
            + SumFreq(allWords, Tail(sentenceWords))

\* the threshold rounded down before the comparison
boostedFloor(index, n) == index < (3 * n) \div 10

\* index < sentences.length * 0.3, index counted from 0
\* (the double product n * 0.3 compares as 3n/10 does for every n < 200)
boosted(index, n) == 10 * index < 3 * n

\* the entry without the period appended to the sentence
sentenceScoreBare(allWords, sentence, index, n) ==
    LET sentenceWords == words(sentence)
        score == SumFreq(allWords, sentenceWords)
                    * (IF boosted(index, n) THEN 3 ELSE 2)
    IN  [sentence |-> trim(sentence),
         num      |-> IF Len(sentenceWords) = 0 THEN 0 ELSE score,
         den      |-> IF Len(sentenceWords) = 0 THEN 1 ELSE 2 * Len(sentenceWords),
         index    |-> index]

\* One entry of sentenceScores. The score is the rational num / den:
\* the frequency sum, times 1.5 when boosted, divided by the number of
\* words of the sentence; 0/0 is NaN and "|| 0" makes it 0.
sentenceScore(allWords, sentence, index, n) ==
    LET sentenceWords == words(sentence)
        score == SumFreq(allWords, sentenceWords)
                    * (IF boosted(index, n) THEN 3 ELSE 2)
    IN  [sentence |-> trim(sentence) \o <<".">>,
         num      |-> IF Len(sentenceWords) = 0 THEN 0 ELSE score,
         den      |-> IF Len(sentenceWords) = 0 THEN 1 ELSE 2 * Len(sentenceWords),
         index    |-> index]

\* every entry built from the first sentence of the pool
sentenceScoresFirst(text) ==
    LET pool     == sentences(text)
        allWords == words(text)
    IN  [i \in DOMAIN pool |-> sentenceScore(allWords, pool[1], i - 1, Len(pool))]

\* the words counted over the sentences of the pool, not over the text
sentenceScoresPoolOnly(text) ==
    LET pool     == sentences(text)
        allWords == words(join(pool))
    IN  [i \in DOMAIN pool |-> sentenceScore(allWords, pool[i], i - 1, Len(pool))]

\* sentences.map((sentence, index) => ...), lines 556-578
sentenceScores(text) ==
    LET pool     == sentences(text)
        allWords == words(text)
    IN  [i \in DOMAIN pool |-> sentenceScore(allWords, pool[i], i - 1, Len(pool))]

\* (a, b) => b.score - a.score is negative: a has the higher score
byScoreDesc(a, b) == a.num * b.den > b.num * a.den

\* (a, b) => a.index - b.index is negative
byIndexAsc(a, b) == a.index < b.index

\* compare(a, b) < 0 for the comparator named by
compareBefore(by, a, b) ==
    IF by = "score" THEN byScoreDesc(a, b) ELSE byIndexAsc(a, b)

\* a sort that puts an element before the earlier elements it equals
RECURSIVE InsertSortedUnstable(_, _, _)
InsertSortedUnstable(x, seq, by) ==
    IF seq = <<>> THEN <<x>>
    ELSE IF ~compareBefore(by, Head(seq), x) THEN <<x>> \o seq
         ELSE <<Head(seq)>> \o InsertSortedUnstable(x, Tail(seq), by)

\* Array.sort(compare), a stable sort: an element stays behind the earlier
\* elements it does not come before.
RECURSIVE InsertSorted(_, _, _)
InsertSorted(x, seq, by) ==
    IF seq = <<>> THEN <<x>>
    ELSE IF compareBefore(by, x, Head(seq)) THEN <<x>> \o seq
         ELSE <<Head(seq)>> \o InsertSorted(x, Tail(seq), by)

RECURSIVE sort(_, _)
sort(seq, by) ==
    IF seq = <<>> THEN <<>>
    ELSE InsertSorted(seq[Len(seq)], sort(SubSeq(seq, 1, Len(seq) - 1), by), by)

\* the selection left in score order: the second sort forgotten
topSentencesByScore(text, length) ==
    LET scores == sentenceScores(text)
    IN  slice(sort(scores, "score"), Min(length, Len(scores)))

\* the leading sentences of the pool: the sort by score forgotten
topSentencesLeading(text, length) ==
    LET scores == sentenceScores(text)
    IN  sort(slice(scores, Min(length, Len(scores))), "index")

\* sentenceScores.sort(...).slice(0, Math.min(summaryLength[0], sentences.length)).sort(...)
topSentences(text, length) ==
    LET scores == sentenceScores(text)
    IN  sort(slice(sort(scores, "score"), Min(length, Len(scores))),
             "index")

\* topSentences.map(item => item.sentence).join(' ')
summarizedText(text, length) ==
    LET top == topSentences(text, length)
    IN  join([i \in DOMAIN top |-> top[i].sentence])

----------------------------------------------------------------------------
(* The messages the component writes into the summary *)

\* setSummary("No valid sentences found for summarization.")
NoValidSentences ==
    <<"N","o"," ","v","a","l","i","d"," ","s","e","n","t","e","n","c","e",
      "s"," ","f","o","u","n","d"," ","f","o","r"," ","s","u","m","m","a",
      "r","i","z","a","t","i","o","n",".">>

\* summarizedText || "Could not generate summary from the provided text."
CouldNotGenerate ==
    <<"C","o","u","l","d"," ","n","o","t"," ","g","e","n","e","r","a","t",
      "e"," ","s","u","m","m","a","r","y"," ","f","r","o","m"," ","t","h",
      "e"," ","p","r","o","v","i","d","e","d"," ","t","e","x","t",".">>

\* setSummary("Error generating summary. Please try again.")
ErrorGenerating ==
    <<"E","r","r","o","r"," ","g","e","n","e","r","a","t","i","n","g"," ",
      "s","u","m","m","a","r","y","."," ","P","l","e","a","s","e"," ","t",
      "r","y"," ","a","g","a","i","n",".">>

\* the toast shown last: its title and, for "Summary Generated", the number
\* of sentences its description reports
NoToast == [title |-> "", count |-> 0]

----------------------------------------------------------------------------
(* The deferred callback of summarizeText, lines 529-606 *)

\* a division that raises on a zero divisor
divisionThrowsOnZero(den) == den = 0

\* score / sentenceWords.length: a division of JavaScript numbers never
\* throws (n/0 is Infinity and 0/0 is NaN)
divisionThrows(den) == FALSE

\* Does a statement of the try block throw? split, trim, filter, Map.get,
\* sort, slice and join are total on strings and arrays; the division is
\* the one arithmetic step whose operand can be zero.
tryThrows(text) ==
    LET pool == sentences(text)
    IN  \E i \in DOMAIN pool : divisionThrows(Len(words(pool[i])))

\* What the callback does with the text and length of its closure: the
\* branch taken, the value given to setSummary and the toast shown
\* (NoToast: none).
callbackResult(text, length) ==
    IF Len(sentences(text)) = 0
    THEN [kind |-> "novalid", summary |-> NoValidSentences, toast |-> NoToast]
    ELSE IF tryThrows(text)
    THEN [kind |-> "error", summary |-> ErrorGenerating,
          toast |-> [title |-> "Error", count |-> 0]]
    ELSE LET text2 == summarizedText(text, length)
         IN  [kind    |-> "summary",
              summary |-> IF text2 = <<>> THEN CouldNotGenerate ELSE text2,
              toast   |-> [title |-> "Summary Generated",
                           count |-> Len(topSentences(text, length))]]

----------------------------------------------------------------------------
(* The inputs *)

\* The texts a document is put together from: an ordinary sentence, one with
\* leading white space, a comma and a run of terminators, a sentence without
\* any counted word, a fragment of exactly ten characters, punctuation only,
\* and words without a terminator.
Pieces ==
    { <<"F","o","x","e","s"," ","h","u","n","t"," ","d","o","g","s",".">>,
      <<" ","D","o","g","s"," ","b","a","r","k",","," ","d","o","g","s"," ","h","o","w","l","!","?">>,
      <<"a"," ","b"," ","c"," ","d"," ","e"," ","f",".">>,
      <<"f","o","x","e","s"," ","h","u","n","t",".">>,
      <<".",".","."," ","."," ","!","!">>,
      <<"s","o"," ","l","o","n","g"," ">> }

\* a document has at most this many pieces
MaxPieces == 3

RECURSIVE Concatenations(_)
Concatenations(k) ==
    IF k = 0 THEN {<<>>}
    ELSE LET shorter == Concatenations(k - 1)
         IN  shorter \cup {d \o p : d \in shorter, p \in Pieces}

Documents == Concatenations(MaxPieces)

\* A document of four sentences about foxes, dogs and riverbanks
FoxDocument ==
    <<"T","h","e"," ","q","u","i","c","k"," ","b","r","o","w","n"," ","f",
      "o","x"," ","j","u","m","p","s"," ","o","v","e","r"," ","t","h","e",
      " ","l","a","z","y"," ","d","o","g"," ","n","e","a","r"," ","t","h",
      "e"," ","r","i","v","e","r","b","a","n","k","."," ","F","o","x","e",
      "s"," ","a","r","e"," ","c","u","n","n","i","n","g"," ","a","n","i",
      "m","a","l","s"," ","k","n","o","w","n"," ","f","o","r"," ","t","h",
      "e","i","r"," ","a","g","i","l","i","t","y","."," ","T","h","e"," ",
      "d","o","g"," ","b","a","r","k","e","d"," ","l","o","u","d","l","y",
      " ","a","t"," ","t","h","e"," ","f","o","x","."," ","R","i","v","e",
      "r","b","a","n","k","s"," ","a","r","e"," ","c","o","m","m","o","n",
      " ","f","o","x"," ","h","a","b","i","t","a","t","s"," ","i","n"," ",
      "r","u","r","a","l"," ","a","r","e","a","s",".">>

\* the documents summarized: the concatenations and the document of four
\* sentences
SummarizedDocuments == Documents \cup {FoxDocument}

\* the largest ordinary requested length
MaxLength == 3

\* the requested lengths: none or less, the ordinary ones, and a huge one
RequestedLengths == {-1, 0} \cup (1 .. MaxLength) \cup {1000}

\* a summary left on the page by an earlier use
EarlierSummaries == {<<>>, <<"O","w","l","s"," ","h","o","o","t"," ","a","t"," ","n","i","g","h","t",".">>}

\* <Slider min={1} max={10}>
SliderMin == 1

SliderMax == 10

\* the slider positions the model tries
MaxSlider == 2

SliderValues == SliderMin .. Min(SliderMax, MaxSlider)

\* the texts the user types into the text area
TypedTexts ==
    { <<>>,
      <<"a"," ","b"," ","c"," ","d"," ","e"," ","f","."," ","F","o","x","e","s"," ","h","u","n","t"," ","d","o","g","s","."," ","D","o","g","s"," ","b","a","r","k",","," ","d","o","g","s"," ","h","o","w","l","!","?">>,
      <<"f","o","x","e","s"," ","h","u","n","t",".">> }

----------------------------------------------------------------------------
(* The other tools of the application, each with its state and handlers *)

(* Notes, Notes.tsx lines 19-286 *)

\* no note selected: useState<Note | null>(null)
NoNote == [id |-> 0, title |-> "", content |-> "", tags |-> <<>>]

\* the number of notes created in a run
MaxNotes == 2

\* what the user types into the title, the content and the tags of the draft
TypedTitles == {"", "Plan"}

TypedContents == {"", "milk"}

TypedTags == {<<>>, <<"a", ",", " ", "b">>, <<" ", ",", "a", ",", ",">>}

\* newTags.split(",").map(tag => tag.trim()).filter(Boolean): the empty
\* pieces that split(",") yields between adjacent commas are dropped by the
\* filter, as are the pieces the split on runs of commas does not yield
parseTags(text) ==
    LET parts == split(text, {","})
    IN  SelectSeq([i \in DOMAIN parts |-> trim(parts[i])],
                  LAMBDA tag : tag # <<>>)

\* note.tags.join(", ")
RECURSIVE joinTags(_)
joinTags(tags) ==
    IF tags = <<>> THEN <<>>
    ELSE IF Len(tags) = 1 THEN tags[1]
         ELSE tags[1] \o <<",", " ">> \o joinTags(Tail(tags))

\* useState of Notes, lines 20-26, with nothing in localStorage
NotesInit ==
    /\ notes = <<>>
    /\ selectedNote = NoNote
    /\ isEditing = FALSE
    /\ newTitle = ""
    /\ newContent = ""
    /\ newTags = <<>>
    /\ nextNoteId = 1
    /\ draftOf = 0

\* createNote, lines 47-62
createNote ==
    /\ nextNoteId <= MaxNotes
    /\ \E note \in {[id |-> nextNoteId, title |-> "New Note",
                     content |-> "", tags |-> <<>>]} :
          /\ notes' = <<note>> \o notes
          /\ selectedNote' = note
          /\ newTitle' = note.title
          /\ newContent' = note.content
          /\ draftOf' = note.id
    /\ isEditing' = TRUE
    /\ newTags' = <<>>
    /\ nextNoteId' = nextNoteId + 1
    /\ UNCHANGED exceptNotes

\* the draft written into the note shown, lines 67-73
updatedNote ==
    [selectedNote EXCEPT !.title   = IF newTitle = "" THEN "Untitled" ELSE newTitle,
                         !.content = newContent,
                         !.tags    = IF newTags = <<>> THEN <<>> ELSE parseTags(newTags)]

\* saveNote, lines 64-86, behind the Save button of the editor (lines 217-220)
saveNote ==
    /\ selectedNote # NoNote
    /\ isEditing
    /\ notes' = [i \in DOMAIN notes |->
                    IF notes[i].id = selectedNote.id THEN updatedNote ELSE notes[i]]
    /\ selectedNote' = updatedNote
    /\ isEditing' = FALSE
    /\ UNCHANGED <<newTitle, newContent, newTags, nextNoteId, draftOf>>
    /\ UNCHANGED exceptNotes

\* deleteNote, lines 88-100
deleteNote ==
    /\ \E k \in DOMAIN notes :
         \E remainingNotes \in {SelectSeq(notes, LAMBDA note : note.id # notes[k].id)} :
            /\ notes' = remainingNotes
            /\ selectedNote' =
                  IF selectedNote.id = notes[k].id
                  THEN IF Len(remainingNotes) > 0 THEN remainingNotes[1] ELSE NoNote
                  ELSE selectedNote
    /\ UNCHANGED <<isEditing, newTitle, newContent, newTags, nextNoteId, draftOf>>
    /\ UNCHANGED exceptNotes

\* startEditing, lines 102-108, behind the Edit button (lines 222-226)
startEditing ==
    /\ selectedNote # NoNote
    /\ ~isEditing
    /\ newTitle' = selectedNote.title
    /\ newContent' = selectedNote.content
    /\ newTags' = joinTags(selectedNote.tags)
    /\ isEditing' = TRUE
    /\ draftOf' = selectedNote.id
    /\ UNCHANGED <<notes, selectedNote, nextNoteId>>
    /\ UNCHANGED exceptNotes

\* onClick={() => setSelectedNote(note)} of a note of the list, line 162
selectNote ==
    /\ \E k \in DOMAIN notes : selectedNote' = notes[k]
    /\ UNCHANGED <<notes, isEditing, newTitle, newContent, newTags, nextNoteId,
                   draftOf>>
    /\ UNCHANGED exceptNotes

\* the Cancel button, lines 214-216
cancelEditing ==
    /\ selectedNote # NoNote
    /\ isEditing
    /\ isEditing' = FALSE
    /\ UNCHANGED <<notes, selectedNote, newTitle, newContent, newTags,
                   nextNoteId, draftOf>>
    /\ UNCHANGED exceptNotes

\* the three inputs of the editor, lines 239-254
editDraft ==
    /\ selectedNote # NoNote
    /\ isEditing
    /\ \/ /\ \E t \in TypedTitles : newTitle' = t
          /\ UNCHANGED <<newContent, newTags>>
       \/ /\ \E c \in TypedContents : newContent' = c
          /\ UNCHANGED <<newTitle, newTags>>
       \/ /\ \E g \in TypedTags : newTags' = g
          /\ UNCHANGED <<newTitle, newContent>>
    /\ UNCHANGED <<notes, selectedNote, isEditing, nextNoteId, draftOf>>
    /\ UNCHANGED exceptNotes

NextNotes ==
    \/ createNote
    \/ saveNote
    \/ deleteNote
    \/ startEditing
    \/ selectNote
    \/ cancelEditing
    \/ editDraft

----------------------------------------------------------------------------
(* QR Code Generator, QRCodeTool *)

\* what the user types into the text, the URL and the phone number
TypedQrTexts == {<<>>, <<" ">>, <<"h", "i">>}

TypedUrls == {<<"h", "t", "t", "p", "s", ":", "/", "/">>, <<"a", ".", "b">>}

TypedPhones == {<<>>, <<"5">>}

\* the tabs modelled; the email and the wifi tab build their text as the
\* phone tab does, from a template that is never empty
QrTabs == {"text", "url", "phone"}

\* `tel:${phoneData}`
telOf(phone) == <<"t", "e", "l", ":">> \o phone

\* canvas.toDataURL('image/png') of the canvas QRCode.toCanvas has drawn:
\* a data URL, never empty, that depends on the text encoded
toDataURL(text) == <<"d", "a", "t", "a", ":">> \o text

\* canvasRef.current: the canvas element is rendered, and the ref attached,
\* only while qrDataURL is truthy (lines 349-355)
canvasMounted == qrDataURL # <<>>

\* useState of QRCodeTool, lines 18-31, and the effect of lines 34-50 that
\* appends the script of the library
QrInit ==
    /\ qrText = <<>>
    /\ qrDataURL = <<>>
    /\ activeTab = "text"
    /\ isLoading = FALSE
    /\ qrLoaded = FALSE
    /\ urlData = <<"h", "t", "t", "p", "s", ":", "/", "/">>
    /\ phoneData = <<>>
    /\ qrTasks = {[kind |-> "script", text |-> <<>>]}
    /\ qrRequested = FALSE

\* generateQRCode up to its first await, lines 52-81: nothing for a blank
\* text or before the library is loaded; with a canvas the call of toCanvas
\* is left to the browser and isLoading is true meanwhile; without a canvas
\* setIsLoading(true) and setIsLoading(false) fall into one update
generateQRCode(text) ==
    IF trim(text) = <<>> \/ ~qrLoaded
    THEN UNCHANGED <<isLoading, qrTasks, qrRequested>>
    ELSE /\ qrRequested' = TRUE
         /\ IF canvasMounted
            THEN /\ isLoading' = TRUE
                 /\ qrTasks' = qrTasks \cup {[kind |-> "toCanvas", text |-> text]}
            ELSE /\ isLoading' = FALSE
                 /\ UNCHANGED qrTasks

\* the text a tab encodes, lines 87-103
textToEncode(tab) ==
    CASE tab = "text" -> qrText
      [] tab = "url" -> urlData
      [] tab = "phone" -> telOf(phoneData)

\* onValueChange of the tabs, lines 83-108
handleTabChange ==
    /\ \E tab \in QrTabs :
          /\ activeTab' = tab
          /\ IF textToEncode(tab) # <<>>
             THEN generateQRCode(textToEncode(tab))
             ELSE UNCHANGED <<isLoading, qrTasks, qrRequested>>
    /\ UNCHANGED <<qrText, qrDataURL, qrLoaded, urlData, phoneData>>
    /\ UNCHANGED exceptQR

\* the Generate button of the tab shown, lines 192-195, 212-215, 275-278:
\* disabled for a blank field, while loading and before the library is loaded
clickGenerate ==
    /\ ~isLoading
    /\ qrLoaded
    /\ \E field \in {CASE activeTab = "text" -> qrText
                        [] activeTab = "url" -> urlData
                        [] activeTab = "phone" -> phoneData} :
          /\ trim(field) # <<>>
          /\ generateQRCode(textToEncode(activeTab))
    /\ UNCHANGED <<qrText, qrDataURL, activeTab, qrLoaded, urlData, phoneData>>
    /\ UNCHANGED exceptQR

\* onChange of the field of the tab shown, lines 188, 208, 271
editQrField ==
    /\ CASE activeTab = "text" ->
               /\ \E t \in TypedQrTexts : qrText' = t
               /\ UNCHANGED <<urlData, phoneData>>
         [] activeTab = "url" ->
               /\ \E t \in TypedUrls : urlData' = t
               /\ UNCHANGED <<qrText, phoneData>>
         [] activeTab = "phone" ->
               /\ \E t \in TypedPhones : phoneData' = t
               /\ UNCHANGED <<qrText, urlData>>
    /\ UNCHANGED <<qrDataURL, activeTab, isLoading, qrLoaded, qrTasks,
                   qrRequested>>
    /\ UNCHANGED exceptQR

\* the browser settles one piece of work: the script loads (onload, line 38)
\* or fails (onerror, lines 39-45); toCanvas resolves and the rest of
\* generateQRCode runs (lines 69-70, 80) or it throws (lines 72-78, 80)
browserSettles ==
    /\ \E task \in qrTasks, ok \in BOOLEAN :
          /\ qrTasks' = qrTasks \ {task}
          /\ IF task.kind = "script"
             THEN /\ qrLoaded' = (qrLoaded \/ ok)
                  /\ UNCHANGED <<qrDataURL, isLoading>>
             ELSE /\ qrDataURL' = IF ok THEN toDataURL(task.text) ELSE qrDataURL
                  /\ isLoading' = FALSE
                  /\ UNCHANGED qrLoaded
    /\ UNCHANGED <<qrText, activeTab, urlData, phoneData, qrRequested>>
    /\ UNCHANGED exceptQR

NextQR ==
    \/ handleTabChange
    \/ clickGenerate
    \/ editQrField
    \/ browserSettles

----------------------------------------------------------------------------
(* Image Compressor, Reminders.tsx lines 219-330 *)

\* the images created in a run
MaxImages == 3

\* the files of one selection
MaxSelected == 2

\* a file the user can pick: its MIME type and whether the browser can
\* decode it as an image (a truncated or mislabelled file has an image type
\* and does not decode)
PickedFiles ==
    { [type |-> "image/png", decodes |-> TRUE],
      [type |-> "image/png", decodes |-> FALSE],
      [type |-> "text/plain", decodes |-> FALSE] }

Selections ==
    UNION { [1..n -> PickedFiles] : n \in 0..MaxSelected }

\* the positions of the quality slider tried
Qualities == {80, 50}

InitialQuality == 80

\* file.type.startsWith('image/'), line 262
isImageFile(file) == file.type \in {"image/png"}

CompressorInit ==
    /\ images = <<>>
    /\ quality = <<InitialQuality>>
    /\ imagesProcessing = FALSE
    /\ imageQueue = <<>>
    /\ newImages = <<>>
    /\ capturedQuality = InitialQuality
    /\ imageLoad = "idle"
    /\ imageToast = "none"
    /\ nextImageId = 1

\* handleFileSelect up to its first await, lines 260-276: the button that
\* opens the file dialog is disabled while isProcessing (line 402)
handleFileSelect ==
    /\ ~imagesProcessing
    /\ \E selectedFiles \in Selections :
          \E imageFiles \in {SelectSeq(selectedFiles, isImageFile)} :
             IF Len(imageFiles) = 0
             THEN /\ imageToast' = "Invalid Files"
                  /\ UNCHANGED <<imagesProcessing, imageQueue, newImages,
                                 capturedQuality, imageLoad>>
             ELSE /\ nextImageId + Len(imageFiles) - 1 <= MaxImages
                  /\ imagesProcessing' = TRUE
                  /\ imageQueue' = imageFiles
                  /\ newImages' = <<>>
                  /\ capturedQuality' = quality[1]
                  /\ imageLoad' = "loading"
                  /\ UNCHANGED imageToast
    /\ UNCHANGED <<images, quality, nextImageId>>
    /\ UNCHANGED exceptCompressor

\* the browser ends the load compressImage started, lines 234-258. With
\* the image decoded and a 2D context, onload resolves the promise and
\* handleFileSelect goes on, lines 277-302, to the next file or to its end.
\* With no 2D context onload returns without resolving, and for a file that
\* does not decode the browser fires onerror, which has no handler: the
\* promise is never settled and handleFileSelect never resumes.
imageSettles ==
    /\ imageLoad = "loading"
    /\ \E context \in BOOLEAN :
          IF Head(imageQueue).decodes /\ context
          THEN \E made \in {Append(newImages,
                                    [id |-> nextImageId,
                                     file |-> Head(imageQueue),
                                     quality |-> capturedQuality])} :
                  /\ nextImageId' = nextImageId + 1
                  /\ imageQueue' = Tail(imageQueue)
                  /\ IF Tail(imageQueue) = <<>>
                     THEN /\ images' = images \o made
                          /\ newImages' = <<>>
                          /\ imageToast' = "Images Compressed"
                          /\ imagesProcessing' = FALSE
                          /\ imageLoad' = "idle"
                     ELSE /\ newImages' = made
                          /\ UNCHANGED <<images, imageToast, imagesProcessing,
                                         imageLoad>>
          ELSE /\ imageLoad' = "never settled"
               /\ UNCHANGED <<images, imageQueue, newImages, imageToast,
                              imagesProcessing, nextImageId>>
    /\ UNCHANGED <<quality, capturedQuality>>
    /\ UNCHANGED exceptCompressor

\* onValueChange of the quality slider, line 370
setQuality ==
    /\ \E q \in Qualities : quality' = <<q>>
    /\ UNCHANGED <<images, imagesProcessing, imageQueue, newImages,
                   capturedQuality, imageLoad, imageToast, nextImageId>>
    /\ UNCHANGED exceptCompressor

\* removeImage, lines 320-322
removeImage ==
    /\ \E i \in DOMAIN images :
          images' = SelectSeq(images, LAMBDA img : img.id # images[i].id)
    /\ UNCHANGED <<quality, imagesProcessing, imageQueue, newImages,
                   capturedQuality, imageLoad, imageToast, nextImageId>>
    /\ UNCHANGED exceptCompressor

\* clearImages, lines 324-329; the button is shown with images in the list
clearImages ==
    /\ images # <<>>
    /\ images' = <<>>
    /\ UNCHANGED <<quality, imagesProcessing, imageQueue, newImages,
                   capturedQuality, imageLoad, imageToast, nextImageId>>
    /\ UNCHANGED exceptCompressor

NextCompressor ==
    \/ handleFileSelect
    \/ imageSettles
    \/ setQuality
    \/ removeImage
    \/ clearImages

----------------------------------------------------------------------------
(* Pomodoro Timer, PomodoroTimer *)

\* the work sessions of a run
MaxSessions == 4

\* useState(25), useState(5), useState(15)
InitialWork == 25

InitialShortBreak == 5

InitialLongBreak == 15

\* the minutes the user types into a field of the settings
TypedMinutes == {1}

TimerModes == {"work", "shortBreak", "longBreak"}

\* no interval is running
NoClosure == [mode |-> "none", sessions |-> 0]

\* getDuration, lines 209-215, for given settings
durationOf(mode, work, short, long) ==
    CASE mode = "work" -> work
      [] mode = "shortBreak" -> short
      [] mode = "longBreak" -> long

getDuration(mode) ==
    durationOf(mode, workDuration, shortBreakDuration, longBreakDuration)

PomodoroInit ==
    /\ workDuration = InitialWork
    /\ shortBreakDuration = InitialShortBreak
    /\ longBreakDuration = InitialLongBreak
    /\ currentMode = "work"
    /\ timeLeft = InitialWork * 60
    /\ pomodoroRunning = FALSE
    /\ sessionsCompleted = 0
    /\ timerClosure = NoClosure
    /\ timerCompleted = FALSE

\* handleTimerComplete with every session counted as the fourth
handleTimerCompleteAlwaysLong ==
    IF timerClosure.mode = "work"
    THEN /\ sessionsCompleted' = sessionsCompleted + 1
         /\ currentMode' = "longBreak"
    ELSE /\ currentMode' = "work"
         /\ UNCHANGED sessionsCompleted

\* handleTimerComplete, lines 263-281, as the callback of the interval
\* calls it: currentMode and sessionsCompleted are read from the closure,
\* the count is incremented by a functional update
handleTimerComplete ==
    IF timerClosure.mode = "work"
    THEN /\ sessionsCompleted' = sessionsCompleted + 1
         /\ currentMode' = IF (timerClosure.sessions + 1) % 4 = 0
                           THEN "longBreak"
                           ELSE "shortBreak"
    ELSE /\ currentMode' = "work"
         /\ UNCHANGED sessionsCompleted

\* the callback of the interval, lines 239-249, once a second while the
\* timer runs; at zero the timer stops, handleTimerComplete runs, and the
\* effect of lines 233-235 sets the time of the mode that follows; the
\* effect of lines 237-261 clears the interval
timerTick ==
    /\ pomodoroRunning
    /\ IF timeLeft <= 1
       THEN /\ pomodoroRunning' = FALSE
            /\ handleTimerComplete
            /\ timeLeft' = IF currentMode' # currentMode
                           THEN getDuration(currentMode') * 60
                           ELSE 0
            /\ timerClosure' = NoClosure
            /\ timerCompleted' = TRUE
       ELSE /\ timeLeft' = timeLeft - 1
            /\ timerCompleted' = FALSE
            /\ UNCHANGED <<pomodoroRunning, currentMode, sessionsCompleted,
                           timerClosure>>
    /\ UNCHANGED <<workDuration, shortBreakDuration, longBreakDuration>>
    /\ UNCHANGED exceptPomodoro

\* startTimer, line 283, and the effect of lines 237-261 that creates the
\* interval; the Start button is shown while the timer does not run
startTimer ==
    /\ ~pomodoroRunning
    /\ sessionsCompleted < MaxSessions
    /\ pomodoroRunning' = TRUE
    /\ timerClosure' = [mode |-> currentMode, sessions |-> sessionsCompleted]
    /\ timerCompleted' = FALSE
    /\ UNCHANGED <<workDuration, shortBreakDuration, longBreakDuration,
                   currentMode, timeLeft, sessionsCompleted>>
    /\ UNCHANGED exceptPomodoro

\* pauseTimer, line 284; the Pause button is shown while the timer runs
pauseTimer ==
    /\ pomodoroRunning
    /\ pomodoroRunning' = FALSE
    /\ timerClosure' = NoClosure
    /\ timerCompleted' = FALSE
    /\ UNCHANGED <<workDuration, shortBreakDuration, longBreakDuration,
                   currentMode, timeLeft, sessionsCompleted>>
    /\ UNCHANGED exceptPomodoro

\* resetTimer, lines 286-289
resetTimer ==
    /\ pomodoroRunning' = FALSE
    /\ timeLeft' = getDuration(currentMode) * 60
    /\ timerClosure' = NoClosure
    /\ timerCompleted' = FALSE
    /\ UNCHANGED <<workDuration, shortBreakDuration, longBreakDuration,
                   currentMode, sessionsCompleted>>
    /\ UNCHANGED exceptPomodoro

\* the mode buttons, lines 400-420, disabled while the timer runs, and the
\* effect of lines 233-235 when the mode changes
selectMode ==
    /\ ~pomodoroRunning
    /\ \E mode \in TimerModes :
          /\ currentMode' = mode
          /\ timeLeft' = IF mode # currentMode
                         THEN getDuration(mode) * 60
                         ELSE timeLeft
    /\ timerCompleted' = FALSE
    /\ UNCHANGED <<workDuration, shortBreakDuration, longBreakDuration,
                   pomodoroRunning, sessionsCompleted, timerClosure>>
    /\ UNCHANGED exceptPomodoro

\* the fields of the settings, lines 337, 347, 357, and the effect of lines
\* 233-235 when a duration changes
setDurations ==
    /\ \E field \in TimerModes, minutes \in TypedMinutes :
          /\ workDuration' =
                IF field = "work" THEN minutes ELSE workDuration
          /\ shortBreakDuration' =
                IF field = "shortBreak" THEN minutes ELSE shortBreakDuration
          /\ longBreakDuration' =
                IF field = "longBreak" THEN minutes ELSE longBreakDuration
          /\ timeLeft' =
                IF getDuration(field) # minutes
                THEN durationOf(currentMode, workDuration',
                                shortBreakDuration', longBreakDuration') * 60
                ELSE timeLeft
    /\ timerCompleted' = FALSE
    /\ UNCHANGED <<currentMode, pomodoroRunning, sessionsCompleted,
                   timerClosure>>
    /\ UNCHANGED exceptPomodoro

NextPomodoro ==
    \/ timerTick
    \/ startTimer
    \/ pauseTimer
    \/ resetTimer
    \/ selectMode
    \/ setDurations

----------------------------------------------------------------------------
(* Reminders, Reminders.tsx lines 16-200 *)

\* the reminders created in a run
MaxReminders == 2

\* the steps of time of a run
MaxSteps == 16

\* the grain of time, in milliseconds: what passes between two things the
\* user or the browser does
TimeStep == 5000

\* setInterval(..., 10000), line 59
CheckInterval == 10000

\* timeDiff > -60000, line 45
NotifyWindow == 60000

\* newDatetime === "": no date chosen
NoDatetime == -1

\* what the user types as title and picks as date and time, the latter as
\* the time after the opening of the page
TypedReminderTitles == {<<>>, <<" ">>, <<"t", "e", "a", " ">>}

PickedDatetimes == {NoDatetime, 10000}

\* useState of Reminders, lines 17-19, with nothing in localStorage, and the
\* interval the effect of lines 36-60 creates
RemindersInit ==
    /\ reminders = <<>>
    /\ reminderTitle = <<>>
    /\ reminderDatetime = NoDatetime
    /\ clock = 0
    /\ sinceCheck = 0
    /\ nextReminderId = 1

\* time passes; the callback of the interval is run when its time has come
timePasses ==
    /\ clock < MaxSteps * TimeStep
    /\ sinceCheck + TimeStep <= CheckInterval
    /\ clock' = clock + TimeStep
    /\ sinceCheck' = sinceCheck + TimeStep
    /\ UNCHANGED <<reminders, reminderTitle, reminderDatetime, nextReminderId>>
    /\ UNCHANGED exceptReminders

\* the callback of the interval is not due: it runs before anything the
\* user does at the instant it is due
intervalWaits == sinceCheck < CheckInterval

\* reminderTime.getTime() - now.getTime(), line 42
timeDiff(reminder) == reminder.datetime - clock

\* the test of lines 40-45
isDue(reminder) ==
    /\ ~reminder.completed
    /\ timeDiff(reminder) <= 0
    /\ timeDiff(reminder) > -NotifyWindow

\* the callback of the interval, lines 37-58: it sees the reminders of the
\* render that created the interval, which are the current ones, because
\* the effect runs again whenever the reminders change
checkDue ==
    /\ sinceCheck = CheckInterval
    /\ reminders' = [i \in DOMAIN reminders |->
                        IF isDue(reminders[i])
                        THEN [reminders[i] EXCEPT !.completed = TRUE,
                                                  !.notified = TRUE]
                        ELSE reminders[i]]
    /\ sinceCheck' = 0
    /\ UNCHANGED <<reminderTitle, reminderDatetime, clock, nextReminderId>>
    /\ UNCHANGED exceptReminders

\* onChange of the two fields, lines 130 and 136
editReminder ==
    /\ intervalWaits
    /\ \/ /\ \E t \in TypedReminderTitles : reminderTitle' = t
          /\ UNCHANGED reminderDatetime
       \/ /\ \E d \in PickedDatetimes : reminderDatetime' = d
          /\ UNCHANGED reminderTitle
    /\ UNCHANGED <<reminders, clock, sinceCheck, nextReminderId>>
    /\ UNCHANGED exceptReminders

\* addReminder, lines 62-82; the change of the reminders runs the effect of
\* lines 36-60 again, which clears the interval and creates a new one.
\* notified, byUser and dueWhileOpen are not fields of the program's
\* reminder: they record that the check has notified it, that the user has
\* toggled it, and that its time had not passed when it was added
addReminder ==
    /\ intervalWaits
    /\ trim(reminderTitle) # <<>>
    /\ reminderDatetime # NoDatetime
    /\ nextReminderId <= MaxReminders
    /\ reminders' = Append(reminders,
                           [id |-> nextReminderId,
                            title |-> trim(reminderTitle),
                            datetime |-> reminderDatetime,
                            completed |-> FALSE,
                            notified |-> FALSE,
                            byUser |-> FALSE,
                            dueWhileOpen |-> reminderDatetime >= clock])
    /\ nextReminderId' = nextReminderId + 1
    /\ reminderTitle' = <<>>
    /\ reminderDatetime' = NoDatetime
    /\ sinceCheck' = 0
    /\ UNCHANGED clock
    /\ UNCHANGED exceptReminders

\* deleteReminder, lines 84-86, and the effect of lines 36-60
deleteReminder ==
    /\ intervalWaits
    /\ \E i \in DOMAIN reminders :
          reminders' = SelectSeq(reminders,
                                 LAMBDA r : r.id # reminders[i].id)
    /\ sinceCheck' = 0
    /\ UNCHANGED <<reminderTitle, reminderDatetime, clock, nextReminderId>>
    /\ UNCHANGED exceptReminders

\* toggleReminder, lines 88-92, and the effect of lines 36-60
toggleReminder ==
    /\ intervalWaits
    /\ \E i \in DOMAIN reminders :
          reminders' = [reminders EXCEPT
                           ![i].completed = ~reminders[i].completed,
                           ![i].byUser = TRUE]
    /\ sinceCheck' = 0
    /\ UNCHANGED <<reminderTitle, reminderDatetime, clock, nextReminderId>>
    /\ UNCHANGED exceptReminders

NextReminders ==
    \/ timePasses
    \/ checkDue
    \/ editReminder
    \/ addReminder
    \/ deleteReminder
    \/ toggleReminder

----------------------------------------------------------------------------
(* Stopwatch and countdown timer, Stopwatch.tsx lines 8-90 *)

\* the ticks of the stopwatch in a run
MaxStopwatchTicks == 3

\* the laps taken in a run
MaxLaps == 1

\* the last step was no tick
NotTicked == -1

\* setInterval(..., 10), line 31: the milliseconds of a tick
TickMs == 10

\* what the user types into the fields of minutes and seconds
TypedMinuteTexts == {<<>>, <<"0">>}

TypedSecondTexts == {<<>>, <<"1">>}

digitValue(c) ==
    CASE c = "0" -> 0 [] c = "1" -> 1 [] c = "2" -> 2 [] c = "3" -> 3
      [] c = "4" -> 4 [] c = "5" -> 5 [] c = "6" -> 6 [] c = "7" -> 7
      [] c = "8" -> 8 [] c = "9" -> 9

\* parseInt(e.target.value) || 0, lines 171 and 186, for the text of a
\* number field, which is empty or made of digits: NaN for the empty text
\* and so 0
RECURSIVE parseIntOrZero(_)
parseIntOrZero(text) ==
    IF text = <<>> THEN 0
    ELSE 10 * parseIntOrZero(SubSeq(text, 1, Len(text) - 1))
         + digitValue(text[Len(text)])

StopwatchInit ==
    /\ time = 0
    /\ stopwatchRunning = FALSE
    /\ laps = <<>>
    /\ countdownTime = 0
    /\ countdownInput = [minutes |-> 0, seconds |-> 0]
    /\ stopwatchMode = "stopwatch"
    /\ tickedFrom = NotTicked

\* the countdown's tick with the timer stopped one tick late
countdownTickLate ==
    IF countdownTime < TickMs
    THEN /\ stopwatchRunning' = FALSE
         /\ countdownTime' = 0
    ELSE /\ countdownTime' = countdownTime - TickMs
         /\ UNCHANGED stopwatchRunning

\* the update of lines 22-28
countdownTick ==
    IF countdownTime <= 10
    THEN /\ stopwatchRunning' = FALSE
         /\ countdownTime' = 0
    ELSE /\ countdownTime' = countdownTime - 10
         /\ UNCHANGED stopwatchRunning

\* the callback of the interval, lines 19-30, every 10 ms while running; the
\* effect of lines 17-43 creates the interval again when the mode changes,
\* so the callback sees the current mode
intervalTick ==
    /\ stopwatchRunning
    /\ IF stopwatchMode = "stopwatch"
       THEN /\ time < MaxStopwatchTicks * TickMs
            /\ time' = time + 10
            /\ UNCHANGED <<countdownTime, stopwatchRunning>>
       ELSE /\ countdownTick
            /\ UNCHANGED time
    /\ tickedFrom' = countdownTime
    /\ UNCHANGED <<laps, countdownInput, stopwatchMode>>
    /\ UNCHANGED exceptStopwatch

\* start, line 56; the button is shown while not running
start ==
    /\ ~stopwatchRunning
    /\ stopwatchRunning' = TRUE
    /\ tickedFrom' = NotTicked
    /\ UNCHANGED <<time, laps, countdownTime, countdownInput, stopwatchMode>>
    /\ UNCHANGED exceptStopwatch

\* pause, line 57; the button is shown while running
pause ==
    /\ stopwatchRunning
    /\ stopwatchRunning' = FALSE
    /\ tickedFrom' = NotTicked
    /\ UNCHANGED <<time, laps, countdownTime, countdownInput, stopwatchMode>>
    /\ UNCHANGED exceptStopwatch

\* reset, lines 59-67
reset ==
    /\ stopwatchRunning' = FALSE
    /\ IF stopwatchMode = "stopwatch"
       THEN /\ time' = 0
            /\ laps' = <<>>
            /\ UNCHANGED countdownTime
       ELSE /\ countdownTime' = 0
            /\ UNCHANGED <<time, laps>>
    /\ tickedFrom' = NotTicked
    /\ UNCHANGED <<countdownInput, stopwatchMode>>
    /\ UNCHANGED exceptStopwatch

\* addLap, lines 69-73; the button is shown in stopwatch mode and disabled
\* while not running
addLap ==
    /\ stopwatchMode = "stopwatch"
    /\ stopwatchRunning
    /\ Len(laps) < MaxLaps
    /\ laps' = Append(laps, time)
    /\ tickedFrom' = NotTicked
    /\ UNCHANGED <<time, stopwatchRunning, countdownTime, countdownInput,
                   stopwatchMode>>
    /\ UNCHANGED exceptStopwatch

\* the fields of the countdown, lines 169-172 and 184-187, shown in
\* countdown mode
setCountdownInput ==
    /\ stopwatchMode = "countdown"
    /\ \/ \E text \in TypedMinuteTexts :
             countdownInput' =
                [countdownInput EXCEPT !.minutes = parseIntOrZero(text)]
       \/ \E text \in TypedSecondTexts :
             countdownInput' =
                [countdownInput EXCEPT !.seconds = parseIntOrZero(text)]
    /\ tickedFrom' = NotTicked
    /\ UNCHANGED <<time, stopwatchRunning, laps, countdownTime, stopwatchMode>>
    /\ UNCHANGED exceptStopwatch

\* setCountdown, lines 75-79; the button is shown in countdown mode
setCountdown ==
    /\ stopwatchMode = "countdown"
    /\ countdownTime' =
          (countdownInput.minutes * 60 + countdownInput.seconds) * 1000
    /\ stopwatchRunning' = FALSE
    /\ tickedFrom' = NotTicked
    /\ UNCHANGED <<time, laps, countdownInput, stopwatchMode>>
    /\ UNCHANGED exceptStopwatch

\* the two buttons of the mode, lines 105-116
setMode ==
    /\ \E m \in {"stopwatch", "countdown"} : stopwatchMode' = m
    /\ tickedFrom' = NotTicked
    /\ UNCHANGED <<time, stopwatchRunning, laps, countdownTime,
                   countdownInput>>
    /\ UNCHANGED exceptStopwatch

NextStopwatch ==
    \/ intervalTick
    \/ start
    \/ pause
    \/ reset
    \/ addLap
    \/ setCountdownInput
    \/ setCountdown
    \/ setMode

----------------------------------------------------------------------------
(* Calendar, Calendar.tsx lines 17-330 *)

\* the events created in a run
MaxEvents == 6

\* .slice(0, 5), line 294
UpcomingLimit == 5

\* new Date() on the day the page is used; months count from 0
Today == [year |-> 2026, month |-> 11, day |-> 10]

\* the months the user visits with the buttons of the header
VisitedMonths == {[year |-> 2026, month |-> 11], [year |-> 2027, month |-> 0]}

\* the days of the grid the user clicks
ClickedDays == {10}

\* what the user types as title and picks as time
TypedEventTitles == {<<" ">>, <<"x", " ">>}

PickedTimes == {<<>>, <<"0", "9", ":", "3", "0">>}

\* Number.prototype.toString for a number that is not negative
RECURSIVE numberToString(_)
numberToString(n) ==
    IF n < 10
    THEN <<CASE n = 0 -> "0" [] n = 1 -> "1" [] n = 2 -> "2" [] n = 3 -> "3"
             [] n = 4 -> "4" [] n = 5 -> "5" [] n = 6 -> "6" [] n = 7 -> "7"
             [] n = 8 -> "8" [] n = 9 -> "9">>
    ELSE numberToString(n \div 10) \o numberToString(n % 10)

\* String.prototype.padStart(length, "0")
RECURSIVE padStart(_, _)
padStart(text, length) ==
    IF Len(text) >= length THEN text ELSE padStart(<<"0">> \o text, length)

\* formatDate, lines 49-51
formatDate(year, month, day) ==
    numberToString(year) \o <<"-">> \o padStart(numberToString(month + 1), 2)
       \o <<"-">> \o padStart(numberToString(day), 2)

\* the place of a character of a date or a time in the collation order:
\* punctuation before the digits, the digits by value
collationRank(c) ==
    CASE c = "-" -> 0 [] c = ":" -> 1
      [] c = "0" -> 2 [] c = "1" -> 3 [] c = "2" -> 4 [] c = "3" -> 5
      [] c = "4" -> 6 [] c = "5" -> 7 [] c = "6" -> 8 [] c = "7" -> 9
      [] c = "8" -> 10 [] c = "9" -> 11

\* String.prototype.localeCompare on such texts: negative, zero or positive
\* by the first character that differs, a prefix before the longer text
RECURSIVE localeCompare(_, _)
localeCompare(a, b) ==
    IF a = <<>> THEN (IF b = <<>> THEN 0 ELSE -1)
    ELSE IF b = <<>> THEN 1
    ELSE IF Head(a) = Head(b) THEN localeCompare(Tail(a), Tail(b))
    ELSE IF collationRank(Head(a)) < collationRank(Head(b)) THEN -1 ELSE 1

\* the comparator with the time compared before the date
compareEventsTimeFirst(a, b) ==
    IF a.time # b.time THEN localeCompare(a.time, b.time)
    ELSE localeCompare(a.date, b.date)

\* the comparator of lines 68-71
compareEvents(a, b) ==
    IF a.date # b.date THEN localeCompare(a.date, b.date)
    ELSE localeCompare(a.time, b.time)

\* Array.prototype.sort with that comparator, which is stable: an element
\* goes behind those that do not compare greater
RECURSIVE insertEvent(_, _)
insertEvent(event, sorted) ==
    IF sorted = <<>> THEN <<event>>
    ELSE IF compareEvents(Head(sorted), event) <= 0
         THEN <<Head(sorted)>> \o insertEvent(event, Tail(sorted))
         ELSE <<event>> \o sorted

RECURSIVE sortEvents(_)
sortEvents(list) ==
    IF list = <<>> THEN <<>>
    ELSE insertEvent(list[Len(list)],
                     sortEvents(SubSeq(list, 1, Len(list) - 1)))

\* useState of Calendar, lines 18-26, with nothing in localStorage
CalendarInit ==
    /\ events = <<>>
    /\ currentDate = [year |-> Today.year, month |-> Today.month]
    /\ selectedDate = <<>>
    /\ showAddEvent = FALSE
    /\ nextEventId = 1

\* previousMonth and nextMonth, lines 85-91: the Date constructor carries a
\* month below 0 or above 11 into the year
monthAfter(date, step) ==
    [year |-> date.year + ((date.month + step + 12) \div 12) - 1,
     month |-> (date.month + step + 12) % 12]

changeMonth ==
    /\ \E step \in {-1, 1} :
          /\ monthAfter(currentDate, step) \in VisitedMonths
          /\ currentDate' = monthAfter(currentDate, step)
    /\ UNCHANGED <<events, selectedDate, showAddEvent, nextEventId>>
    /\ UNCHANGED exceptCalendar

\* onClick of a day of the grid, lines 120-123
selectDay ==
    /\ \E day \in ClickedDays :
          selectedDate' = formatDate(currentDate.year, currentDate.month, day)
    /\ showAddEvent' = TRUE
    /\ UNCHANGED <<events, currentDate, nextEventId>>
    /\ UNCHANGED exceptCalendar

\* the Cancel button of the form, line 236
cancelAddEvent ==
    /\ showAddEvent
    /\ showAddEvent' = FALSE
    /\ UNCHANGED <<events, currentDate, selectedDate, nextEventId>>
    /\ UNCHANGED exceptCalendar

\* the numbers a date "year-month-day" and a time "hour:minute" are made
\* of: the runs of digits between the hyphens and the colons
RECURSIVE numbersFrom(_, _)
numbersFrom(text, number) ==
    IF text = <<>> THEN <<number>>
    ELSE IF Head(text) \in {"-", ":"}
         THEN <<number>> \o numbersFrom(Tail(text), 0)
         ELSE numbersFrom(Tail(text), 10 * number + digitValue(Head(text)))

numbersOf(text) == numbersFrom(text, 0)

\* the day a date stands for, counted so that a later day has a greater
\* number, and the minute a date and a time stand for
dayNumber(date) ==
    LET n == numbersOf(date)
    IN  (n[1] * 12 + (n[2] - 1)) * 31 + n[3]

minuteNumber(date, clockTime) ==
    LET n == numbersOf(clockTime)
    IN  dayNumber(date) * 1440 + n[1] * 60 + n[2]

\* addEvent, lines 57-83, with the form as the user has filled it (lines
\* 214-224); nothing happens for a blank title. day and minute are not
\* fields of the program's event: they record, as numbers, the day and the
\* minute its date and time stand for
addEvent ==
    /\ showAddEvent
    /\ selectedDate # <<>>
    /\ nextEventId <= MaxEvents
    /\ \E title \in TypedEventTitles, picked \in PickedTimes :
          /\ trim(title) # <<>>
          /\ \E clockTime \in {IF picked # <<>>
                                 THEN picked
                                 ELSE <<"0", "0", ":", "0", "0">>} :
                events' = sortEvents(Append(events,
                             [id |-> nextEventId,
                              title |-> trim(title),
                              date |-> selectedDate,
                              time |-> clockTime,
                              day |-> dayNumber(selectedDate),
                              minute |-> minuteNumber(selectedDate,
                                                      clockTime)]))
    /\ nextEventId' = nextEventId + 1
    /\ showAddEvent' = FALSE
    /\ UNCHANGED <<currentDate, selectedDate>>
    /\ UNCHANGED exceptCalendar

\* deleteEvent, lines 81-83
deleteEvent ==
    /\ \E i \in DOMAIN events :
          events' = SelectSeq(events, LAMBDA e : e.id # events[i].id)
    /\ UNCHANGED <<currentDate, selectedDate, showAddEvent, nextEventId>>
    /\ UNCHANGED exceptCalendar

\* formatDate of today, lines 292-293
todayStr == formatDate(Today.year, Today.month, Today.day)

\* the events of the card Upcoming Events, lines 291-296
upcomingEvents ==
    LET later == SelectSeq(events,
                           LAMBDA e : localeCompare(e.date, todayStr) > 0)
    IN  SubSeq(later, 1, Min(UpcomingLimit, Len(later)))

NextCalendar ==
    \/ changeMonth
    \/ selectDay
    \/ cancelAddEvent
    \/ addEvent
    \/ deleteEvent

----------------------------------------------------------------------------
(* PDF Merger, FileMerger, and Image to PDF, ImageToPdf.tsx *)

\* the items created in a run, over both lists
MaxItems == 4

\* the last step was no move
NoMove == [list |-> "none", id |-> 0, direction |-> "none", before |-> <<>>]

Directions == {"up", "down"}

\* prev.findIndex(item => item.id === id), counted from 1, 0 for -1
findIndex(list, id) ==
    IF \E i \in DOMAIN list : list[i].id = id
    THEN CHOOSE i \in DOMAIN list :
            list[i].id = id /\ \A j \in 1..(i - 1) : list[j].id # id
    ELSE 0

\* the move with the neighbour overwritten instead of swapped
moveFileOverwriting(prev, id, direction) ==
    LET index == findIndex(prev, id)
        newIndex == IF direction = "up" THEN index - 1 ELSE index + 1
    IN  IF index = 0 THEN prev
        ELSE IF newIndex < 1 \/ newIndex > Len(prev) THEN prev
        ELSE [prev EXCEPT ![newIndex] = prev[index]]

\* the updater of moveFile, lines 62-72 of the merger
moveFile(prev, id, direction) ==
    LET index == findIndex(prev, id)
        newIndex == IF direction = "up" THEN index - 1 ELSE index + 1
    IN  IF index = 0 THEN prev
        ELSE IF newIndex < 1 \/ newIndex > Len(prev) THEN prev
        ELSE [prev EXCEPT ![index] = prev[newIndex],
                          ![newIndex] = prev[index]]

\* the updater of moveImage, ImageToPdf.tsx lines 61-71
moveImage(prev, id, direction) ==
    LET index == findIndex(prev, id)
        newIndex == IF direction = "up" THEN index - 1 ELSE index + 1
    IN  IF index = 0 THEN prev
        ELSE IF newIndex < 1 \/ newIndex > Len(prev) THEN prev
        ELSE [prev EXCEPT ![index] = prev[newIndex],
                          ![newIndex] = prev[index]]

ListsInit ==
    /\ files = <<>>
    /\ pdfImages = <<>>
    /\ nextItemId = 1
    /\ lastMove = NoMove

\* handleFileSelect of the merger, lines 31-55, for one PDF file
addFile ==
    /\ nextItemId <= MaxItems
    /\ files' = Append(files, [id |-> nextItemId])
    /\ nextItemId' = nextItemId + 1
    /\ lastMove' = NoMove
    /\ UNCHANGED pdfImages
    /\ UNCHANGED exceptLists

\* handleFileSelect of Image to PDF, lines 19-48, for one image
addImage ==
    /\ nextItemId <= MaxItems
    /\ pdfImages' = Append(pdfImages, [id |-> nextItemId])
    /\ nextItemId' = nextItemId + 1
    /\ lastMove' = NoMove
    /\ UNCHANGED files
    /\ UNCHANGED exceptLists

\* removeFile, lines 57-59 of the merger
removeFile ==
    /\ \E i \in DOMAIN files :
          files' = SelectSeq(files, LAMBDA f : f.id # files[i].id)
    /\ lastMove' = NoMove
    /\ UNCHANGED <<pdfImages, nextItemId>>
    /\ UNCHANGED exceptLists

\* removeImage, ImageToPdf.tsx lines 50-58
removePdfImage ==
    /\ \E i \in DOMAIN pdfImages :
          pdfImages' = SelectSeq(pdfImages,
                                 LAMBDA img : img.id # pdfImages[i].id)
    /\ lastMove' = NoMove
    /\ UNCHANGED <<files, nextItemId>>
    /\ UNCHANGED exceptLists

\* the arrows of the merger, lines 211-222. The arrow up of the first item
\* and the arrow down of the last are disabled, but the updater works on the
\* list as it is when it runs: behind another click that was not rendered
\* yet it meets an item at the end of the list, or an id that was removed
clickMoveFile ==
    /\ \E id \in 1..(nextItemId - 1), direction \in Directions :
          /\ files' = moveFile(files, id, direction)
          /\ lastMove' = [list |-> "files", id |-> id,
                          direction |-> direction, before |-> files]
    /\ UNCHANGED <<pdfImages, nextItemId>>
    /\ UNCHANGED exceptLists

\* the arrows of Image to PDF, lines 250-263
clickMoveImage ==
    /\ \E id \in 1..(nextItemId - 1), direction \in Directions :
          /\ pdfImages' = moveImage(pdfImages, id, direction)
          /\ lastMove' = [list |-> "images", id |-> id,
                          direction |-> direction, before |-> pdfImages]
    /\ UNCHANGED <<files, nextItemId>>
    /\ UNCHANGED exceptLists

NextLists ==
    \/ addFile
    \/ addImage
    \/ removeFile
    \/ removePdfImage
    \/ clickMoveFile
    \/ clickMoveImage

----------------------------------------------------------------------------
(* The tools at rest *)

ToolsInit ==
    /\ NotesInit
    /\ QrInit
    /\ CompressorInit
    /\ PomodoroInit
    /\ RemindersInit
    /\ StopwatchInit
    /\ CalendarInit
    /\ ListsInit

----------------------------------------------------------------------------
(* The component *)

\* no invocation has ended
NoLog == [runs |-> {}, repeated |-> FALSE, cleared |-> FALSE]

\* useState("") , useState("") , useState([3]) , useState(false)
InitialLength == 3

Init ==
    /\ inputText = <<>>
    /\ summary = <<>>
    /\ summaryLength = <<InitialLength>>
    /\ isProcessing = FALSE
    /\ toast = NoToast
    /\ pending = <<>>
    /\ log = NoLog
    /\ ToolsInit

\* The component with any text and any requested length in its state; an
\* earlier summary is tried where the call may leave the summary alone, on
\* the texts that are empty after trimming.
InitFn ==
    /\ inputText \in SummarizedDocuments
    /\ summary \in IF trim(inputText) = <<>> THEN EarlierSummaries ELSE {<<>>}
    /\ summaryLength \in {<<n>> : n \in RequestedLengths}
    /\ isProcessing = FALSE
    /\ toast = NoToast
    /\ pending = <<>>
    /\ log = NoLog
    /\ ToolsInit

\* The history of the invocations that have ended: for each, its text and
\* length, the branch it took and what it gave to setSummary; and whether
\* some text and length ended more than once. The history also tells
\* whether clearAll was the last thing the user did to the text or with the
\* button.
Logged(text, length, kind, out) ==
    [runs     |-> log.runs \cup {[text |-> text, length |-> length,
                                  kind |-> kind, out |-> out]},
     repeated |-> log.repeated
                    \/ \E e \in log.runs : e.text = text /\ e.length = length,
     cleared  |-> log.cleared]

\* summarizeText without its guard on the empty text
summarizeTextUnguarded ==
    /\ isProcessing' = TRUE
    /\ pending' = Append(pending, [inputText     |-> inputText,
                                   summaryLength |-> summaryLength])
    /\ UNCHANGED <<inputText, summary, summaryLength, toast, log>>
    /\ UNCHANGED toolsVars

\* summarizeText, lines 516-527 and 607: the guard and the setTimeout
summarizeText ==
    /\ IF trim(inputText) = <<>>
       THEN /\ toast' = [title |-> "No Text", count |-> 0]
            /\ log' = Logged(inputText, summaryLength[1], "notext", <<>>)
            /\ UNCHANGED <<inputText, summary, summaryLength, isProcessing, pending>>
       ELSE /\ isProcessing' = TRUE
            /\ pending' = Append(pending, [inputText     |-> inputText,
                                           summaryLength |-> summaryLength])
            /\ log' = [log EXCEPT !.cleared = FALSE]
            /\ UNCHANGED <<inputText, summary, summaryLength, toast>>
    /\ UNCHANGED toolsVars

\* the callback reading the text and length of the page as they are when it
\* runs, not those of the render that scheduled it
timeoutCallbackLive ==
    /\ pending # <<>>
    /\ \E closure \in {Head(pending)} :
         \E result \in {callbackResult(inputText, summaryLength[1])} :
            /\ summary' = result.summary
            /\ toast' = IF result.toast = NoToast THEN toast ELSE result.toast
            /\ log' = Logged(closure.inputText, closure.summaryLength[1],
                             result.kind, result.summary)
    /\ isProcessing' = FALSE
    /\ pending' = Tail(pending)
    /\ UNCHANGED <<inputText, summaryLength>>
    /\ UNCHANGED toolsVars

\* the callback emptying the text area once it has summarized
timeoutCallbackClearing ==
    /\ pending # <<>>
    /\ \E closure \in {Head(pending)} :
         \E result \in {callbackResult(closure.inputText, closure.summaryLength[1])} :
            /\ summary' = result.summary
            /\ toast' = IF result.toast = NoToast THEN toast ELSE result.toast
            /\ log' = Logged(closure.inputText, closure.summaryLength[1],
                             result.kind, result.summary)
    /\ isProcessing' = FALSE
    /\ pending' = Tail(pending)
    /\ inputText' = <<>>
    /\ UNCHANGED summaryLength
    /\ UNCHANGED toolsVars

\* the callback returning from the branch without sentence with the
\* processing flag still set
timeoutCallbackStuck ==
    /\ pending # <<>>
    /\ \E closure \in {Head(pending)} :
         \E result \in {callbackResult(closure.inputText, closure.summaryLength[1])} :
            /\ summary' = result.summary
            /\ toast' = IF result.toast = NoToast THEN toast ELSE result.toast
            /\ log' = Logged(closure.inputText, closure.summaryLength[1],
                             result.kind, result.summary)
            /\ isProcessing' = (result.kind = "novalid")
    /\ pending' = Tail(pending)
    /\ UNCHANGED <<inputText, summaryLength>>
    /\ UNCHANGED toolsVars

\* The callback of setTimeout, lines 529-606, run with the inputText and
\* summaryLength of the render that scheduled it; every path ends with
\* setIsProcessing(false).
timeoutCallback ==
    /\ pending # <<>>
    /\ \E closure \in {Head(pending)} :
         \E result \in {callbackResult(closure.inputText, closure.summaryLength[1])} :
            /\ summary' = result.summary
            /\ toast' = IF result.toast = NoToast THEN toast ELSE result.toast
            /\ log' = Logged(closure.inputText, closure.summaryLength[1],
                             result.kind, result.summary)
    /\ isProcessing' = FALSE
    /\ pending' = Tail(pending)
    /\ UNCHANGED <<inputText, summaryLength>>
    /\ UNCHANGED toolsVars

\* <Textarea onChange={(e) => setInputText(e.target.value)}>
setInputText ==
    /\ \E text \in TypedTexts : inputText' = text
    /\ log' = [log EXCEPT !.cleared = FALSE]
    /\ UNCHANGED <<summary, summaryLength, isProcessing, toast, pending>>
    /\ UNCHANGED toolsVars

\* <Slider onValueChange={setSummaryLength}>
setSummaryLength ==
    /\ \E n \in SliderValues : summaryLength' = <<n>>
    /\ UNCHANGED <<inputText, summary, isProcessing, toast, pending, log>>
    /\ UNCHANGED toolsVars

\* <Button onClick={summarizeText} disabled={!inputText.trim() || isProcessing}>
clickSummarize ==
    /\ ~(trim(inputText) = <<>> \/ isProcessing)
    /\ summarizeText

\* clearAll, lines 618-621
clearAll ==
    /\ inputText' = <<>>
    /\ summary' = <<>>
    /\ log' = [log EXCEPT !.cleared = TRUE]
    /\ UNCHANGED <<summaryLength, isProcessing, toast, pending>>
    /\ UNCHANGED toolsVars

\* The page as the user drives it
Next ==
    \/ setInputText
    \/ setSummaryLength
    \/ clickSummarize
    \/ timeoutCallback
    \/ clearAll

Spec == Init /\ [][Next]_vars

\* The timer of setTimeout fires: the oldest scheduled callback leaves the
\* queue. Of the steps of the page these are the steps of timeoutCallback.
timerFires == pending # <<>> /\ pending' = Tail(pending)

\* The page with its timer: a callback that setTimeout has scheduled runs
\* (after 1000 ms, line 606), whatever the user does in between
SpecLive == Spec /\ WF_pending(timerFires)

\* summarizeText called once on a component at rest
callSummarize ==
    /\ pending = <<>>
    /\ log.runs = {}
    /\ summarizeText

NextFn ==
    \/ callSummarize
    \/ timeoutCallback

SpecFn == InitFn /\ [][NextFn]_vars

----------------------------------------------------------------------------
(* Vocabulary of the properties *)

\* the invocation of summarizeText on the text and length of the state has
\* ended (under SpecFn the text and the length never change)
Completed == pending = <<>> /\ log.runs # {}

RequestedLength == summaryLength[1]

\* the fragments between runs of terminators, trimmed
Fragments(text) ==
    LET parts == split(text, Delims)
    IN  [i \in DOMAIN parts |-> trim(parts[i])]

\* the eligible sentences: the fragments longer than 10 characters
Eligible(text) == SelectSeq(Fragments(text), LAMBDA f : Len(f) > 10)

\* the number of clauses of a string that terminal punctuation delimits
Clauses(s) ==
    LET parts == Fragments(s)
    IN  Cardinality({i \in DOMAIN parts : parts[i] # <<>>})

\* the sentences at the positions idx of the pool, each with a period,
\* joined by single spaces
Rendered(pool, idx) ==
    join([k \in DOMAIN idx |-> pool[idx[k]] \o <<".">>])

\* the sequences of positions of 1..n without repetition
InjectiveSelections(n) ==
    UNION {{idx \in [1 .. k -> 1 .. n] :
               \A i, j \in 1 .. k : i # j => idx[i] # idx[j]} : k \in 0 .. n}

\* those in strictly ascending order
AscendingSelections(n) ==
    {idx \in InjectiveSelections(n) :
        \A i, j \in DOMAIN idx : i < j => idx[i] < idx[j]}

\* a letter, a digit or an underscore
IsWordChar(c) == toLowerCase(c) \in WordChars

\* the positions at which a token of more than 3 characters starts, a token
\* being a maximal run of word characters
LongTokenStarts(text) ==
    {i \in DOMAIN text :
        /\ IsWordChar(text[i])
        /\ i = 1 \/ ~IsWordChar(text[i - 1])
        /\ i + 3 <= Len(text)
        /\ \A k \in i .. i + 3 : IsWordChar(text[k])}

\* the token that starts at position i, in lower case
TokenAt(text, i) ==
    LET end == CHOOSE j \in i .. Len(text) :
                  /\ \A k \in i .. j : IsWordChar(text[k])
                  /\ j = Len(text) \/ ~IsWordChar(text[j + 1])
    IN  SubSeq([k \in DOMAIN text |-> toLowerCase(text[k])], i, end)

\* the positions at which a token of any length starts
TokenStarts(text) ==
    {i \in DOMAIN text :
        IsWordChar(text[i]) /\ (i = 1 \/ ~IsWordChar(text[i - 1]))}

\* the tokens of more than 3 characters, each with its position
LongTokens(text) == {<<i, TokenAt(text, i)>> : i \in LongTokenStarts(text)}

\* the tokens of any length, each with its position
Tokens(text) == {<<i, TokenAt(text, i)>> : i \in TokenStarts(text)}

\* the sum, over the long tokens of a sentence, of the number of times the
\* token occurs among the tokens given
FrequencySum(tokens, sentence) ==
    Cardinality({pr \in LongTokens(sentence) \X tokens : pr[1][2] = pr[2][2]})

\* the first n values of a sequence, each computed once
RECURSIVE Computed(_, _)
Computed(seq, n) ==
    IF n = 0 THEN <<>> ELSE Append(Computed(seq, n - 1), seq[n])

\* for every sentence of the pool, the sum of the document-wide frequencies
\* of its long tokens and the number of these tokens
Means(text) ==
    LET pool   == Eligible(text)
        tokens == LongTokens(text)
    IN  Computed([i \in DOMAIN pool |->
                    <<FrequencySum(tokens, pool[i]),
                      Cardinality(LongTokenStarts(pool[i]))>>],
                 Len(pool))

\* the score of an entry is 1.5 times the mean frequency <<sum, count>>
HasBonus(entry, mean) == 2 * entry.num * mean[2] = 3 * mean[1] * entry.den

\* the final scores of the pool, each a fraction <<numerator, denominator>>:
\* the frequency sum over the number of long tokens, times 3/2 for the
\* leading three tenths of the pool, and 0 for a sentence without long token
FinalScores(text) ==
    LET mean == Means(text)
    IN  Computed([i \in DOMAIN mean |->
                    IF mean[i][2] = 0 THEN <<0, 1>>
                    ELSE <<mean[i][1]
                             * (IF 10 * (i - 1) < 3 * Len(mean) THEN 3 ELSE 2),
                           2 * mean[i][2]>>],
                 Len(mean))

\* the entries of sentenceScores, each computed once
Entries(text) == Computed(sentenceScores(text), Len(sentences(text)))

\* the fraction a is greater than the fraction b
Greater(a, b) == a[1] * b[2] > b[1] * a[2]

\* the positions in the pool of the sentences selected
Selected(text, length) ==
    LET top == topSentences(text, length)
    IN  {top[k].index + 1 : k \in DOMAIN top}

\* the summary is the sentences selected, in the order of the selection
SummaryOfSelection ==
    LET top == topSentences(inputText, RequestedLength)
    IN  summary = join([k \in DOMAIN top |-> top[k].sentence])

\* the callback showed "Summary Generated" and wrote sentences
WroteSentences ==
    /\ Completed
    /\ toast.title = "Summary Generated"
    /\ summary # CouldNotGenerate

----------------------------------------------------------------------------
(* Properties of the summary, checked under SpecFn *)

\* C1: for a document with E >= 1 eligible sentences and a requested length
\* n >= 1, the summary holds exactly min(n, E) sentences, and the toast
\* reports that number; a request of 1000 on 3 eligible sentences gives 3.
C1_ExactlyMinSentences ==
    (Completed /\ Len(Eligible(inputText)) >= 1 /\ RequestedLength >= 1)
        => /\ Clauses(summary) = Min(RequestedLength, Len(Eligible(inputText)))
           /\ toast = [title |-> "Summary Generated",
                       count |-> Min(RequestedLength, Len(Eligible(inputText)))]

\* a request of 1000 on a document of exactly 3 eligible sentences has ended
\* with a summary of 3 sentences
C1_Witness ==
    /\ Completed
    /\ Len(Eligible(inputText)) = 3
    /\ RequestedLength = 1000
    /\ Clauses(summary) = 3

\* C2: the sentences of the summary stand in strictly ascending order of
\* their positions in the document: the summary is the rendering of an
\* ascending selection of positions of the sentence pool.
C2_OriginalOrder ==
    WroteSentences
        => \E idx \in AscendingSelections(Len(Eligible(inputText))) :
              summary = Rendered(Eligible(inputText), idx)

\* a summary of at least two sentences has been written in which a later
\* sentence has a strictly higher score than an earlier one
C2_Witness ==
    /\ WroteSentences
    /\ Clauses(summary) >= 2
    /\ \E top \in {topSentences(inputText, RequestedLength)} :
          \E i, j \in DOMAIN top : i < j /\ byScoreDesc(top[j], top[i])

\* C10: every sentence of the summary is an eligible sentence of the
\* document followed by a period, and no position of the pool is output
\* twice: the summary is the rendering of a selection of positions without
\* repetition, as many as the toast reports.
C10_SelectionOfPool ==
    WroteSentences
        => \E idx \in InjectiveSelections(Len(Eligible(inputText))) :
              /\ summary = Rendered(Eligible(inputText), idx)
              /\ toast.count = Len(idx)

\* a summary of two sentences has been written from a pool of three, two of
\* them with the same text
C10_Witness ==
    /\ WroteSentences
    /\ Len(Eligible(inputText)) = 3
    /\ Clauses(summary) = 2
    /\ \E i, j \in 1 .. 3 : i # j /\ Eligible(inputText)[i] = Eligible(inputText)[j]

\* C3 as claimed: summarizing a text that is empty after trimming sets the
\* summary to the "no valid sentences" diagnostic.
C3_EmptySetsDiagnostic ==
    (Completed /\ trim(inputText) = <<>>) => summary = NoValidSentences

\* C3 as amended: on a text that is empty after trimming, summarizeText shows
\* the "No Text" toast and returns: the summary keeps its value, nothing is
\* scheduled and the processing flag stays false.
C3_EmptyOnlyToasts ==
    [][trim(inputText) = <<>>
          => /\ toast'.title = "No Text"
             /\ summary' = summary
             /\ pending' = <<>>
             /\ isProcessing' = FALSE]_vars

\* summarizeText has ended on an empty text with an earlier summary still
\* on the page
C3_Witness ==
    /\ Completed
    /\ trim(inputText) = <<>>
    /\ toast.title = "No Text"
    /\ summary # <<>>

\* C4: on a text that is not empty after trimming but has no fragment longer
\* than 10 characters, the summary is the "no valid sentences" diagnostic
\* and no "Summary Generated" toast is shown.
C4_NoEligibleSentence ==
    (Completed /\ trim(inputText) # <<>> /\ Len(Eligible(inputText)) = 0)
        => (summary = NoValidSentences /\ toast = NoToast)

\* the diagnostic has been written for a text whose longest fragment has
\* exactly 10 characters
C4_Witness ==
    /\ Completed
    /\ summary = NoValidSentences
    /\ Len(Eligible(inputText)) = 0
    /\ \E i \in DOMAIN Fragments(inputText) : Len(Fragments(inputText)[i]) = 10

C6_AtLeastTen ==
    (/\ Completed
     /\ inputText # <<>>
     /\ \E i \in DOMAIN Fragments(inputText) : Len(Fragments(inputText)[i]) >= 10
     /\ RequestedLength >= 1)
        => /\ summary # <<>>
           /\ Clauses(summary) <= Min(RequestedLength, Len(Eligible(inputText)))

\* C6 as amended: the same for a fragment of trimmed length > 10.
C6_MoreThanTen ==
    (/\ Completed
     /\ inputText # <<>>
     /\ \E i \in DOMAIN Fragments(inputText) : Len(Fragments(inputText)[i]) > 10
     /\ RequestedLength >= 1)
        => /\ summary # <<>>
           /\ Clauses(summary) <= Min(RequestedLength, Len(Eligible(inputText)))

\* a summary has been written for a request of fewer sentences than the
\* document has
C6_Witness ==
    /\ Completed
    /\ RequestedLength >= 1
    /\ RequestedLength < Len(Eligible(inputText))
    /\ Clauses(summary) = RequestedLength

\* C7: a document with a single eligible sentence gives that sentence,
\* trimmed and followed by a period, for every requested length >= 1.
C7_SingleSentence ==
    (Completed /\ Len(Eligible(inputText)) = 1 /\ RequestedLength >= 1)
        => summary = Eligible(inputText)[1] \o <<".">>

\* the single sentence of a document has been returned for a request of 2,
\* the sentence standing after white space and before a run of terminators
C7_Witness ==
    /\ Completed
    /\ Len(Eligible(inputText)) = 1
    /\ RequestedLength = 2
    /\ inputText[1] = " "
    /\ summary = Eligible(inputText)[1] \o <<".">>

C11_PeriodsAndSingleSpaces ==
    WroteSentences
        => /\ summary[Len(summary)] = "."
           /\ \A i \in DOMAIN summary :
                 summary[i] \in Delims
                    => /\ summary[i] = "."
                       /\ i > 1
                       /\ summary[i - 1] \notin Delims \cup Whitespace
                       /\ i < Len(summary)
                            => /\ summary[i + 1] = " "
                               /\ i + 2 <= Len(summary)
                               /\ summary[i + 2] \notin Delims \cup Whitespace
           /\ Cardinality({i \in DOMAIN summary : summary[i] = "."}) = toast.count

\* a summary of at least two sentences has been written from a document in
\* which a sentence ends with a run of terminators and one starts after
\* white space
C11_Witness ==
    /\ WroteSentences
    /\ Clauses(summary) >= 2
    /\ \E i \in 1 .. Len(inputText) - 1 :
          inputText[i] = "!" /\ inputText[i + 1] = "?"
    /\ \E i \in 1 .. Len(inputText) - 1 :
          inputText[i] \in Delims /\ inputText[i + 1] = " "

\* the summary of the document of four sentences for a requested length of 2
FoxSummary ==
    <<"T","h","e"," ","q","u","i","c","k"," ","b","r","o","w","n"," ","f",
      "o","x"," ","j","u","m","p","s"," ","o","v","e","r"," ","t","h","e",
      " ","l","a","z","y"," ","d","o","g"," ","n","e","a","r"," ","t","h",
      "e"," ","r","i","v","e","r","b","a","n","k","."," ","F","o","x","e",
      "s"," ","a","r","e"," ","c","u","n","n","i","n","g"," ","a","n","i",
      "m","a","l","s"," ","k","n","o","w","n"," ","f","o","r"," ","t","h",
      "e","i","r"," ","a","g","i","l","i","t","y",".">>

\* C13: for the document of four sentences and a requested length of 2, the
\* summary is the two sentences of highest score, in document order, each
\* ending with a period: the first and the second sentence, and no sentence
\* left out has a strictly higher score than one of them.
C13_FoxScenario ==
    (Completed /\ inputText = FoxDocument /\ RequestedLength = 2)
        => /\ summary = FoxSummary
           /\ toast = [title |-> "Summary Generated", count |-> 2]
           /\ \E scores \in {sentenceScores(inputText)} :
                 /\ Len(scores) = 4
                 /\ \A i \in {1, 2}, j \in {3, 4} :
                       ~byScoreDesc(scores[j], scores[i])

\* the document of four sentences has been summarized to 2 sentences
C13_Witness ==
    /\ Completed
    /\ inputText = FoxDocument
    /\ RequestedLength = 2
    /\ Clauses(summary) = 2

\* C14: a sentence of non-zero score has the 1.5 position factor exactly
\* when its 0-based index in the pool of N eligible sentences is below
\* floor(0.3 * N): none for N <= 3, only index 0 for N = 4.
C14_BonusBelowFloor ==
    Completed
        => \E entries \in {Entries(inputText)} :
            \E mean \in {Means(inputText)} :
              \A i \in DOMAIN mean :
                 mean[i][1] > 0
                    => (HasBonus(entries[i], mean[i])
                          <=> i - 1 < (3 * Len(mean)) \div 10)

\* What the code does: the factor is applied when index < 0.3 * N, without
\* rounding, so index 0 has it for every N >= 1 and index 1 for N = 4.
C14_BonusBelowThreeTenths ==
    Completed
        => \E entries \in {Entries(inputText)} :
            \E mean \in {Means(inputText)} :
              \A i \in DOMAIN mean :
                 mean[i][1] > 0
                    => (HasBonus(entries[i], mean[i])
                          <=> 10 * (i - 1) < 3 * Len(mean))

\* a pool of 4 sentences has been summarized, the second with the factor
C14_SecondOfFour ==
    /\ Completed
    /\ Len(Eligible(inputText)) = 4
    /\ Means(inputText)[2][1] > 0
    /\ HasBonus(Entries(inputText)[2], Means(inputText)[2])

\* C15: the pool is, in document order, the fragments between runs of
\* terminators whose trimmed length is strictly greater than 10: a fragment
\* of 10 characters is left out, one of 11 is kept; a summary of all the
\* pool is these fragments in that order.
C15_PoolIsLongFragments ==
    Completed
        => \E frs \in {Fragments(inputText)} :
            \E pool \in {sentences(inputText)} :
              /\ pool = SelectSeq(frs, LAMBDA f : Len(f) > 10)
              /\ \A i \in DOMAIN frs :
                    /\ Len(frs[i]) = 10 => \A k \in DOMAIN pool : pool[k] # frs[i]
                    /\ Len(frs[i]) = 11 => \E k \in DOMAIN pool : pool[k] = frs[i]
              /\ (RequestedLength >= Len(pool) /\ pool # <<>>)
                    => summary = Rendered(pool, [k \in DOMAIN pool |-> k])

\* a document with a fragment of 10 characters, a fragment of 11 and a
\* longer one behind it has been summarized in full
C15_Witness ==
    /\ WroteSentences
    /\ RequestedLength = 1000
    /\ \E frs \in {Fragments(inputText)} :
          /\ \E i \in DOMAIN frs : Len(frs[i]) = 10
          /\ \E i, j \in DOMAIN frs : i < j /\ Len(frs[i]) = 11 /\ Len(frs[j]) > 11
    /\ Clauses(summary) = 2

\* C16: the selection is the top of the pool by final score: no eligible
\* sentence left out of the summary has a strictly greater final score than
\* a sentence of the summary.
C16_TopByScore ==
    WroteSentences
        => /\ SummaryOfSelection
           /\ \E sel \in {Selected(inputText, RequestedLength)} :
               \E score \in {FinalScores(inputText)} :
                 \A i \in sel, j \in DOMAIN score \ sel :
                    ~Greater(score[j], score[i])

\* a summary has left out an earlier sentence for a later one of greater
\* score
C16_Witness ==
    /\ WroteSentences
    /\ \E sel \in {Selected(inputText, RequestedLength)} :
        \E score \in {FinalScores(inputText)} :
          \E i \in sel, j \in DOMAIN score \ sel :
             j < i /\ Greater(score[i], score[j])

\* C17: ties are broken by original order: of two eligible sentences of
\* equal final score of which only one is in the summary, the earlier one
\* is.
C17_TiesKeepDocumentOrder ==
    (WroteSentences /\ RequestedLength >= 1)
        => /\ SummaryOfSelection
           /\ \E sel \in {Selected(inputText, RequestedLength)} :
               \E score \in {FinalScores(inputText)} :
                 \A i, j \in DOMAIN score :
                    (/\ i < j
                     /\ ~Greater(score[i], score[j])
                     /\ ~Greater(score[j], score[i])
                     /\ j \in sel)
                        => i \in sel

\* two sentences of different text and equal final score, the earlier in
\* the summary and the later left out
C17_Witness ==
    /\ WroteSentences
    /\ RequestedLength >= 1
    /\ \E sel \in {Selected(inputText, RequestedLength)} :
        \E score \in {FinalScores(inputText)} :
          \E i \in sel, j \in DOMAIN score \ sel :
             /\ i < j
             /\ ~Greater(score[i], score[j])
             /\ ~Greater(score[j], score[i])
             /\ Eligible(inputText)[i] # Eligible(inputText)[j]

\* C18: before the position bonus the score of a sentence is the sum of the
\* document-wide frequencies of its tokens of more than 3 characters divided
\* by the number of these tokens, so its score is that quotient or 3/2 of it;
\* a sentence without such a token has score exactly 0, the computation does
\* not fail, and the sentence can be selected.
C18_MeanFrequency ==
    Completed
        => /\ \A e \in log.runs : e.kind # "error"
           /\ summary # ErrorGenerating
           /\ \E entries \in {Entries(inputText)} :
               \E mean \in {Means(inputText)} :
                 /\ Len(entries) = Len(mean)
                 /\ \A i \in DOMAIN entries :
                      \E sum \in {mean[i][1]}, count \in {mean[i][2]} :
                        /\ entries[i].den > 0
                        /\ count = 0 => entries[i].num = 0
                        /\ count > 0
                             => \/ entries[i].num * count = sum * entries[i].den
                                \/ 2 * entries[i].num * count
                                      = 3 * sum * entries[i].den

\* a sentence without token of more than 3 characters is in the summary,
\* next to a sentence in which a token counts twice
C18_Witness ==
    /\ WroteSentences
    /\ SummaryOfSelection
    /\ \E mean \in {Means(inputText)} :
          \E i, j \in Selected(inputText, RequestedLength) :
             mean[i][2] = 0 /\ mean[j][1] > mean[j][2]

\* C19: the frequency table counts the occurrences of a token over the
\* entire document, discarded fragments included, and holds no token of 3
\* characters or fewer; the score of every eligible sentence is computed
\* from these document-wide counts.
C19_DocumentWideCounts ==
    Completed
        => /\ \E allWords \in {words(inputText)} :
              \E tokens \in {Tokens(inputText)} :
                \A t \in tokens :
                   wordFreq(allWords, t[2])
                      = IF Len(t[2]) <= 3 THEN 0
                        ELSE Cardinality({u \in tokens : u[2] = t[2]})
           /\ \E entries \in {Entries(inputText)} :
               \E score \in {FinalScores(inputText)} :
                 /\ Len(entries) = Len(score)
                 /\ \A i \in DOMAIN entries :
                       entries[i].num * score[i][2] = score[i][1] * entries[i].den

\* a token of a discarded fragment occurs in an eligible sentence of the
\* summary, which also holds a token of 3 characters or fewer
C19_Witness ==
    /\ WroteSentences
    /\ SummaryOfSelection
    /\ \E frs \in {Fragments(inputText)} :
          \E d \in DOMAIN frs, i \in Selected(inputText, RequestedLength) :
            \E sentence \in {Eligible(inputText)[i]} :
              /\ Len(frs[d]) <= 10
              /\ FrequencySum(LongTokens(frs[d]), sentence) > 0
              /\ \E t \in Tokens(sentence) : Len(t[2]) <= 3

----------------------------------------------------------------------------
(* Properties of the page, checked under Spec *)

C12_InputsUnchanged ==
    [][pending' # pending
          => (inputText' = inputText /\ summaryLength' = summaryLength)]_vars

\* a request has ended with its summary written, the text and the requested
\* length still on the page
C12_Witness ==
    /\ pending = <<>>
    /\ log.runs # {}
    /\ \E e \in log.runs :
          e.text = inputText /\ e.length = summaryLength[1] /\ e.out = summary

----------------------------------------------------------------------------
(* Properties of the page and its timer, checked under SpecLive *)

\* C20: while a request is pending isProcessing is true and no second
\* request is pending with it (the button is disabled), and whichever way
\* the callback ends, isProcessing becomes false again.
C20_ProcessingUntilDone ==
    /\ [](pending # <<>> => (isProcessing /\ Len(pending) = 1))
    /\ [][isProcessing => Len(pending') <= Len(pending)]_vars
    /\ (isProcessing ~> ~isProcessing)

\* requests have ended with a summary and with the diagnostic of a text
\* without sentence, and the page is at rest again
C20_Witness ==
    /\ ~isProcessing
    /\ pending = <<>>
    /\ \E e \in log.runs : e.kind = "summary"
    /\ \E e \in log.runs : e.kind = "novalid"

----------------------------------------------------------------------------
(* clearAll and a request still pending, checked under Spec *)

\* C21: after clearAll the text and the summary are empty and stay empty
\* until the user edits the text or issues a new request: a request that was
\* pending when clearAll ran does not write its result later.
C21_ClearedStaysEmpty ==
    log.cleared => (inputText = <<>> /\ summary = <<>>)

----------------------------------------------------------------------------
(* Notes, checked under SpecNotes *)

SpecNotes == Init /\ [][NextNotes]_allVars

\* C22: a save writes the draft only into the note the draft was loaded from
\* by createNote or startEditing: a step that changes a note of the list in
\* place changes that note and no other.
C22_SaveIntoDraftsNote ==
    [][Len(notes') = Len(notes)
          => \A i \in DOMAIN notes :
                notes'[i] # notes[i] => notes[i].id = draftOf]_allVars

----------------------------------------------------------------------------
(* QR Code Generator, checked under SpecQR *)

\* the browser settles the work it was given
SpecQR == Init /\ [][NextQR]_allVars /\ WF_qrVars(browserSettles)

\* C23: once the library is loaded, a request to generate the code of a text
\* that is not blank eventually sets qrDataURL to a non-empty value, so the
\* canvas and the Download button become available.
C23_RequestLeadsToCode ==
    qrRequested ~> (qrDataURL # <<>>)

----------------------------------------------------------------------------
(* Image Compressor, checked under SpecCompressor *)

\* the browser ends every load it was given
SpecCompressor ==
    Init /\ [][NextCompressor]_allVars /\ WF_compressorVars(imageSettles)

\* C24: every selection of files that sets isProcessing to true eventually
\* sets it back to false, whether the images load and compress, fail to load
\* or have no 2D context: the upload button is never disabled for ever.
C24_ProcessingEnds ==
    imagesProcessing ~> ~imagesProcessing

----------------------------------------------------------------------------
(* Pomodoro Timer, checked under SpecPomodoro *)

SpecPomodoro == Init /\ [][NextPomodoro]_allVars

\* C25: when the timer reaches zero in work mode the count of sessions goes
\* up by one and the mode becomes longBreak if the new count is a multiple
\* of 4 and shortBreak otherwise; in a break mode the mode becomes work and
\* the count is unchanged; either way the timer stops and timeLeft is the
\* full duration of the new mode.
C25_TimerCompletes ==
    [][timerCompleted' =>
          /\ ~pomodoroRunning'
          /\ IF currentMode = "work"
             THEN /\ sessionsCompleted' = sessionsCompleted + 1
                  /\ currentMode' = IF sessionsCompleted' % 4 = 0
                                    THEN "longBreak"
                                    ELSE "shortBreak"
             ELSE /\ currentMode' = "work"
                  /\ sessionsCompleted' = sessionsCompleted
          /\ timeLeft' = durationOf(currentMode', workDuration',
                                    shortBreakDuration',
                                    longBreakDuration') * 60]_allVars

\* a fourth work session has ended in a long break, after breaks that ended
C25_Witness ==
    /\ timerCompleted
    /\ sessionsCompleted = 4
    /\ currentMode = "longBreak"
    /\ ~pomodoroRunning
    /\ timeLeft = longBreakDuration * 60

----------------------------------------------------------------------------
(* Reminders, checked under SpecReminders *)

SpecReminders == Init /\ [][NextReminders]_allVars

\* C26: a reminder that is not completed and whose time comes while the page
\* is open is notified by the periodic check and marked completed before it
\* is more than 60 seconds overdue, whatever the user adds, deletes or
\* toggles among the other reminders meanwhile.
C26_NotifiedWithinWindow ==
    \A i \in DOMAIN reminders :
       ( /\ reminders[i].dueWhileOpen
         /\ ~reminders[i].byUser
         /\ clock - reminders[i].datetime >= NotifyWindow )
       => (reminders[i].notified /\ reminders[i].completed)

----------------------------------------------------------------------------
(* Stopwatch and countdown, checked under SpecStopwatch *)

SpecStopwatch == Init /\ [][NextStopwatch]_allVars

\* C27: in countdown mode, with inputs that are not negative, countdownTime
\* is never negative; a tick takes 10 ms off it until it is exactly 0, and
\* then the timer is not running; a change of mode or a reset made in
\* countdown mode leaves the time and the laps of the stopwatch unchanged.
C27_CountdownToZero ==
    [][/\ countdownTime' >= 0
       /\ (tickedFrom' # NotTicked /\ stopwatchMode = "countdown") =>
             /\ countdownTime > 0 => countdownTime' = countdownTime - 10
             /\ countdownTime' = 0 => ~stopwatchRunning'
       /\ (tickedFrom' = NotTicked /\ stopwatchMode = "countdown") =>
             (time' = time /\ laps' = laps)]_allVars

\* a tick has taken the countdown from 10 ms to zero and stopped it, beside
\* a stopwatch that has run and holds a lap
C27_Witness ==
    /\ tickedFrom = 10
    /\ stopwatchMode = "countdown"
    /\ countdownTime = 0
    /\ ~stopwatchRunning
    /\ time > 0
    /\ laps # <<>>

----------------------------------------------------------------------------
(* Calendar, checked under SpecCalendar *)

SpecCalendar == Init /\ [][NextCalendar]_allVars

\* the elements of a list
Range(list) == {list[i] : i \in DOMAIN list}

\* the places in the list of the events later than today
LaterEvents ==
    { i \in DOMAIN events :
         events[i].day > (Today.year * 12 + Today.month) * 31 + Today.day }

\* C28: starting from the empty list, after any sequence of addEvent and
\* deleteEvent the events are in ascending order of date and then time, so
\* the upcoming events shown, five at most, are the earliest of the
\* upcoming ones.
C28_EventsInOrder ==
    \E shown \in {{e.id : e \in Range(upcomingEvents)}},
       later \in {LaterEvents} :
       /\ \A i \in 1..(Len(events) - 1) :
             events[i].minute <= events[i + 1].minute
       /\ Cardinality(shown) = Min(UpcomingLimit, Cardinality(later))
       /\ shown \subseteq {events[i].id : i \in later}
       /\ \A i, j \in later :
             (events[i].id \in shown /\ events[j].id \notin shown)
             => events[i].minute <= events[j].minute

\* six events are upcoming, one of them not shown, and an event added later
\* stands before one added earlier
C28_Witness ==
    /\ Cardinality(LaterEvents) > UpcomingLimit
    /\ Len(upcomingEvents) = UpcomingLimit
    /\ \E i, j \in DOMAIN events :
          /\ i < j
          /\ events[i].id > events[j].id
          /\ events[i].time # events[j].time

----------------------------------------------------------------------------
(* The lists of the PDF tools, checked under SpecLists *)

SpecLists == Init /\ [][NextLists]_allVars

\* the list the last move was made in, as it is now
MovedList == IF lastMove.list = "files" THEN files ELSE pdfImages

\* the place of an id in a list, 0 where it has none
PlaceOf(list, id) ==
    IF \E i \in DOMAIN list : list[i].id = id
    THEN CHOOSE i \in DOMAIN list : list[i].id = id
    ELSE 0

\* the place the last move aimed at
Neighbour ==
    PlaceOf(lastMove.before, lastMove.id)
       + (IF lastMove.direction = "up" THEN -1 ELSE 1)

\* the last move had an item and a neighbour to swap it with
MoveApplies ==
    /\ PlaceOf(lastMove.before, lastMove.id) # 0
    /\ Neighbour \in DOMAIN lastMove.before

\* C29: a move swaps the item with its neighbour in the direction given and
\* changes nothing else; it changes nothing at all for the first item moved
\* up, the last moved down and an id that is not in the list; the list
\* stays a permutation of the items it had; moving an item that is neither
\* first nor last up and then down gives the order back.
C29_MoveSwapsNeighbours ==
    /\ lastMove # NoMove =>
          \E before \in {lastMove.before}, now \in {MovedList},
             place \in {PlaceOf(lastMove.before, lastMove.id)} :
             /\ Len(now) = Len(before)
             /\ {now[i] : i \in DOMAIN now} = {before[i] : i \in DOMAIN before}
             /\ \A i, j \in DOMAIN now : i # j => now[i] # now[j]
             /\ IF MoveApplies
                THEN /\ now[Neighbour] = before[place]
                     /\ now[place] = before[Neighbour]
                     /\ \A i \in DOMAIN before \ {place, Neighbour} :
                           now[i] = before[i]
                ELSE now = before
    /\ \A i \in 2..(Len(files) - 1) :
          moveFile(moveFile(files, files[i].id, "up"), files[i].id, "down")
             = files
    /\ \A i \in 2..(Len(pdfImages) - 1) :
          moveImage(moveImage(pdfImages, pdfImages[i].id, "up"),
                    pdfImages[i].id, "down") = pdfImages

\* the middle one of three files has just been moved up, past the item that
\* was first
C29_Witness ==
    /\ lastMove.list = "files"
    /\ lastMove.direction = "up"
    /\ Len(files) = 3
    /\ PlaceOf(lastMove.before, lastMove.id) = 2
    /\ files[1].id = lastMove.id
    /\ files # lastMove.before

====
